---- MODULE Spec2Model ----
(***************************************************************************)
(* State-machine model of the quant_framework core runtime:                *)
(*   - core/portfolio.py   Portfolio (T+0 / T+1 settlement)                *)
(*   - core/engine.py      EventEngine (priority dispatch, error isolation)*)
(*   - plugins/manager.py  PluginManager (topological lifecycle)           *)
(*   - core/risk.py        RiskManager and the built-in rules              *)
(*   - core/context.py     Context scopes over a ContextVar                *)
(*   - plugins/hookspecs.py HookCaller (priority order, first result)      *)
(*   - contrib/backtest/simple_backtest.py  SimpleBacktestEngine           *)
(* Money and prices are Python floats in the source; the model computes    *)
(* them as exact rationals [n, d] in lowest terms, so every identity below *)
(* is an identity of the arithmetic the code writes down, up to the        *)
(* rounding of IEEE doubles.                                               *)
(***************************************************************************)
EXTENDS Integers, Sequences, FiniteSets, TLC

VARIABLES
    portfolio,      \* the Portfolio object: initial_cash, cash, positions, trade_mode, _pending_t1
    realized,       \* sum of the realized PnL values returned by successful sells
    lastCall,       \* the most recent call on any component, with its outcome
    opCount,        \* number of portfolio calls made so far (bounds the exploration)
    engine,         \* the EventEngine object: _handlers, _middlewares, _running, counters
    nextReg,        \* number of register calls made so far (stamps each registration)
    busLog,         \* callables invoked by the most recent put/start/stop, in order
    sinceStart,     \* events put on the running bus since the last start
    manager,        \* the PluginManager object: _plugins, _initialized, _init_order
    pmLog,          \* setup/teardown calls made by the most recent manager call
    lastInit,       \* the setup calls of the initialize still in effect, and whether
                    \* the registry was changed since
    setUp,          \* names of the plugins whose setup completed and whose teardown was
                    \* not called since
    riskManager,    \* the RiskManager object: rules, _violations
    ctxState,       \* the current-context variable per flow and each Context's _tokens
    scopes,         \* per flow, the with-blocks that are open, innermost last
    raising,        \* per flow, whether an exception is propagating
    backtest,       \* the SimpleBacktestEngine object: configuration and per-run state
    btRuns,         \* the runs made on it: arguments, outcome and the calls made
    hookCaller,     \* the HookCaller object: first_result, optional, _implementations
    hookLog,        \* implementation functions invoked by the most recent call, in order
    cache,          \* the MemoryCache object: _data and the holder of _lock
    threads,        \* per thread, the cache call it is in and where it stands
    clock,          \* time.time()
    cacheHist       \* what the calls on the cache have done so far

pfVars == <<portfolio, realized, opCount>>
busVars == <<engine, nextReg, busLog, sinceStart>>
pmVars == <<manager, pmLog, lastInit, setUp>>
riskVars == <<riskManager>>
ctxVars == <<ctxState, scopes, raising>>
btVars == <<backtest, btRuns>>
hookVars == <<hookCaller, hookLog>>
cacheVars == <<cache, threads, clock, cacheHist>>

\* ------------------------------------------------------------------------
\* Bounds of the exploration
\* ------------------------------------------------------------------------
MaxOps == 4
MaxQty == 2
MaxPrice == 2
NumDates == 2

Symbols == {"A", "B"}
NoSymbol == ""
Dates == 1..NumDates
Quantities == 0..MaxQty
Prices == 0..MaxPrice
InitialCashChoices == {0, 6}
TradeModes == {"T+0", "T+1"}

\* ------------------------------------------------------------------------
\* Exact rational arithmetic standing for Python float arithmetic
\* ------------------------------------------------------------------------
Abs(x) == IF x < 0 THEN -x ELSE x

RECURSIVE Gcd(_, _)
Gcd(a, b) == IF b = 0 THEN a ELSE Gcd(b, a % b)

Rat(n, d) ==
    LET g == Gcd(Abs(n), d)
    IN  IF n = 0 THEN [n |-> 0, d |-> 1] ELSE [n |-> n \div g, d |-> d \div g]

RatInt(i) == [n |-> i, d |-> 1]
RatAdd(x, y) == Rat(x.n * y.d + y.n * x.d, x.d * y.d)
RatSub(x, y) == Rat(x.n * y.d - y.n * x.d, x.d * y.d)
RatMul(x, y) == Rat(x.n * y.n, x.d * y.d)
RatDivInt(x, k) == Rat(x.n, x.d * k)
RatLt(x, y) == x.n * y.d < y.n * x.d
RatLe(x, y) == x.n * y.d <= y.n * x.d
RatZero == RatInt(0)

\* body applied to the value of v: a local variable of the code, assigned once
With(v, body(_)) == CHOOSE r \in {body(x) : x \in {v}} : TRUE

\* ------------------------------------------------------------------------
\* core/portfolio.py
\* ------------------------------------------------------------------------
\* Portfolio.__init__
NewPortfolio(initial_cash, trade_mode) ==
    [ initial_cash |-> RatInt(initial_cash),
      cash         |-> RatInt(initial_cash),
      positions    |-> << >>,
      trade_mode   |-> trade_mode,
      pending_t1   |-> << >> ]

\* Portfolio._validate_trade_input: TRUE when no ValueError is raised
ValidTradeInput(symbol, quantity, price) ==
    /\ symbol # NoSymbol
    /\ quantity > 0
    /\ RatLt(RatZero, price)

\* dict helpers: a Python dict is a function whose DOMAIN is its key set
DictGet(dct, k, default) == IF k \in DOMAIN dct THEN dct[k] ELSE default
DictPut(dct, k, v) == [x \in (DOMAIN dct) \cup {k} |-> IF x = k THEN v ELSE dct[x]]
DictDel(dct, k) == [x \in (DOMAIN dct) \ {k} |-> dct[x]]

\* a slip: the whole holding is sellable in either mode
GetAvailableQuantity_IgnoreMode(pf, symbol, date) ==
    IF symbol \notin DOMAIN pf.positions THEN 0
    ELSE pf.positions[symbol].quantity

\* Portfolio.get_available_quantity
GetAvailableQuantity(pf, symbol, date) ==
    IF symbol \notin DOMAIN pf.positions THEN 0
    ELSE IF pf.trade_mode = "T+0" THEN pf.positions[symbol].quantity
    ELSE pf.positions[symbol].available

\* a slip: the cost of the latest buy replaces the weighted average
WeightedCost_LatestPrice(existing, quantity, amount) ==
    RatDivInt(amount, quantity)

\* weighted average cost of a position after a further buy (portfolio.py:80-83)
WeightedCost(existing, quantity, amount) ==
    RatDivInt(RatAdd(RatMul(existing.cost, RatInt(existing.quantity)), amount),
              existing.quantity + quantity)

\* a slip: the cash is debited before it is compared with the amount
OnInsufficientCash_Debited(pf, amount) == [pf EXCEPT !.cash = RatSub(@, amount)]

\* the portfolio when buy raises "Insufficient cash" (portfolio.py:64-65):
\* the comparison comes before every assignment
OnInsufficientCash(pf, amount) == pf

\* Portfolio.buy: [ok, pf]; ok = FALSE stands for the raised ValueError
PortfolioBuy(pf, symbol, quantity, price, date) ==
    LET amount == RatMul(RatInt(quantity), price)
    IN
    IF ~ValidTradeInput(symbol, quantity, price) THEN [ok |-> FALSE, pf |-> pf]
    ELSE IF RatLt(pf.cash, amount)
    THEN [ok |-> FALSE, pf |-> OnInsufficientCash(pf, amount)]
    ELSE
      LET cash1 == RatSub(pf.cash, amount)
          newPos ==
            IF symbol \notin DOMAIN pf.positions
            THEN [ quantity  |-> quantity,
                   cost      |-> price,
                   available |-> IF pf.trade_mode = "T+0" THEN quantity ELSE 0,
                   buy_date  |-> date ]
            ELSE LET existing == pf.positions[symbol]
                 IN [ quantity  |-> existing.quantity + quantity,
                      cost      |-> WeightedCost(existing, quantity, amount),
                      available |-> IF pf.trade_mode = "T+0"
                                    THEN existing.available + quantity
                                    ELSE existing.available,
                      buy_date  |-> date ]
          pend1 ==
            IF pf.trade_mode = "T+1"
            THEN LET bucket == DictGet(pf.pending_t1, date, << >>)
                 IN DictPut(pf.pending_t1, date,
                            DictPut(bucket, symbol, DictGet(bucket, symbol, 0) + quantity))
            ELSE pf.pending_t1
      IN [ok |-> TRUE,
          pf |-> [pf EXCEPT !.cash = cash1,
                            !.positions = DictPut(pf.positions, symbol, newPos),
                            !.pending_t1 = pend1]]

\* realized PnL of one sell (portfolio.py:115)
RealizedPnl(position, quantity, price) ==
    RatMul(RatSub(price, position.cost), RatInt(quantity))

\* a slip: available is resynchronised to quantity in either mode
AvailableAfterSell_Resync(pf, q1, a1) == q1

\* available of a position that survives a sell (portfolio.py:119-124)
AvailableAfterSell(pf, q1, a1) ==
    IF pf.trade_mode = "T+0" THEN q1 ELSE a1

\* Portfolio.sell: [ok, pf, ret]; ret is the realized PnL returned
PortfolioSell(pf, symbol, quantity, price, date) ==
    IF ~ValidTradeInput(symbol, quantity, price)
    THEN [ok |-> FALSE, pf |-> pf, ret |-> RatZero]
    ELSE IF symbol \notin DOMAIN pf.positions \/ pf.positions[symbol].quantity < quantity
    THEN [ok |-> FALSE, pf |-> pf, ret |-> RatZero]
    ELSE IF quantity > GetAvailableQuantity(pf, symbol, date)
    THEN [ok |-> FALSE, pf |-> pf, ret |-> RatZero]
    ELSE
      LET position == pf.positions[symbol]
          q1 == position.quantity - quantity
          a1 == position.available - quantity
          positions1 ==
            IF q1 = 0 THEN DictDel(pf.positions, symbol)
            ELSE DictPut(pf.positions, symbol,
                         [position EXCEPT !.quantity = q1,
                                          !.available = AvailableAfterSell(pf, q1, a1)])
      IN [ok  |-> TRUE,
          pf  |-> [pf EXCEPT !.cash = RatAdd(pf.cash, RatMul(RatInt(quantity), price)),
                             !.positions = positions1],
          ret |-> RealizedPnl(position, quantity, price)]

\* quantity released to one position by settle_day (portfolio.py:174-177)
Released(pf, date, symbol) ==
    DictGet(DictGet(pf.pending_t1, date, << >>), symbol, 0)

\* a slip: the released bucket is read but not removed
PortfolioSettleDay_KeepPending(pf, date) ==
    IF pf.trade_mode # "T+1" THEN pf
    ELSE [pf EXCEPT
            !.positions = [s \in DOMAIN pf.positions |->
                             [pf.positions[s] EXCEPT
                                !.available = @ + Released(pf, date, s)]]]

\* Portfolio.settle_day
PortfolioSettleDay(pf, date) ==
    IF pf.trade_mode # "T+1" THEN pf
    ELSE [pf EXCEPT
            !.pending_t1 = DictDel(pf.pending_t1, date),
            !.positions = [s \in DOMAIN pf.positions |->
                             [pf.positions[s] EXCEPT
                                !.available = @ + Released(pf, date, s)]]]

\* ------------------------------------------------------------------------
\* Portfolio calls as actions
\* ------------------------------------------------------------------------
NoCall == [op |-> "none", ok |-> TRUE]

PortfolioInit ==
    /\ \E c \in InitialCashChoices, m \in TradeModes : portfolio = NewPortfolio(c, m)
    /\ realized = RatZero

Buy(symbol, quantity, price, date) ==
    LET r == PortfolioBuy(portfolio, symbol, quantity, RatInt(price), date)
    IN /\ opCount < MaxOps
       /\ portfolio' = r.pf
       /\ realized' = realized
       /\ lastCall' = [op |-> "buy", symbol |-> symbol, quantity |-> quantity,
                       date |-> date, ok |-> r.ok]
       /\ opCount' = opCount + 1
       /\ UNCHANGED <<busVars, pmVars, riskVars, ctxVars, btVars, hookVars, cacheVars>>

Sell(symbol, quantity, price, date) ==
    LET r == PortfolioSell(portfolio, symbol, quantity, RatInt(price), date)
    IN /\ opCount < MaxOps
       /\ portfolio' = r.pf
       /\ realized' = IF r.ok THEN RatAdd(realized, r.ret) ELSE realized
       /\ lastCall' = [op |-> "sell", symbol |-> symbol, quantity |-> quantity,
                       date |-> date, ok |-> r.ok]
       /\ opCount' = opCount + 1
       /\ UNCHANGED <<busVars, pmVars, riskVars, ctxVars, btVars, hookVars, cacheVars>>

SettleDay(date) ==
    /\ opCount < MaxOps
    /\ portfolio' = PortfolioSettleDay(portfolio, date)
    /\ realized' = realized
    /\ lastCall' = [op |-> "settle_day", symbol |-> NoSymbol, quantity |-> 0,
                    date |-> date, ok |-> TRUE]
    /\ opCount' = opCount + 1
    /\ UNCHANGED <<busVars, pmVars, riskVars, ctxVars, btVars, hookVars, cacheVars>>

\* ------------------------------------------------------------------------
\* core/engine.py
\* ------------------------------------------------------------------------
MaxRegs == 2            \* register calls explored
MaxMiddlewares == 2     \* use calls explored
MaxCallables == 3       \* register and use calls explored together
MaxEvents == 2          \* put is explored while event_count is below this
RecursionLimit == 3     \* nesting depth of put at which the interpreter raises RecursionError

PutTypes == {"BAR", "ORDER"}
EventTypes == PutTypes \cup {"START", "STOP"}
\* event types for which register and unregister are explored
RegTypes == PutTypes
Priorities == {0, 1}

\* the callables offered to register, named by what they do when invoked:
\* return None, raise, return the event received, return a fresh event
Handlers == {"hNone", "hRaise", "hSame", "hEmit"}
\* the callables offered to use: return the event, return None, raise,
\* return a fresh event of another type
Middlewares == {"mPass", "mDrop", "mRaise", "mSubst"}

\* type of the fresh event a handler or middleware of the pool creates
OtherType(t) == IF t = "BAR" THEN "ORDER" ELSE "BAR"

\* the callables offered to register_handler: return None, or hand a fresh
\* event of the next type to emit and return None
SurfaceTypes == {"BAR", "ORDER", "TRADE"}
SurfaceHandlers == {"hNone", "hCallEmit"}
NextType(t) == CASE t = "BAR" -> "ORDER" [] t = "ORDER" -> "TRADE" [] OTHER -> "BAR"

\* EventEngine.__init__
NewEngine ==
    [ handlers    |-> << >>,
      middlewares |-> << >>,
      running     |-> FALSE,
      event_count |-> 0,
      error_count |-> 0 ]

\* HandlerInfo.__lt__
HandlerInfoLt(a, b) == a.priority < b.priority

\* one insertion of a stable descending sort: x goes behind every element
\* that is not smaller than it
RECURSIVE InsertDesc(_, _)
InsertDesc(sorted, x) ==
    IF sorted = << >> THEN <<x>>
    ELSE IF HandlerInfoLt(Head(sorted), x)
         THEN <<x>> \o sorted
         ELSE <<Head(sorted)>> \o InsertDesc(Tail(sorted), x)

\* a slip: an unstable sort, equal elements come out in reverse
RECURSIVE SortReverse_Unstable(_)
SortReverse_Unstable(list) ==
    IF list = << >> THEN << >>
    ELSE LET x == list[Len(list)]
             RECURSIVE Ins(_)
             Ins(srt) == IF srt = << >> THEN <<x>>
                         ELSE IF HandlerInfoLt(x, Head(srt))
                              THEN <<Head(srt)>> \o Ins(Tail(srt))
                              ELSE <<x>> \o srt
         IN Ins(SortReverse_Unstable(SubSeq(list, 1, Len(list) - 1)))

\* list.sort(reverse=True): descending by __lt__, stable (engine.py:152)
RECURSIVE SortReverse(_)
SortReverse(list) ==
    IF list = << >> THEN << >>
    ELSE InsertDesc(SortReverse(SubSeq(list, 1, Len(list) - 1)), list[Len(list)])

\* EventEngine.register (the handlers of the pool are all callable)
EngineRegister(eng, event_type, handler, priority, reg) ==
    LET info == [handler |-> handler, priority |-> priority, reg |-> reg]
        appended == Append(DictGet(eng.handlers, event_type, << >>), info)
    IN [eng EXCEPT !.handlers = DictPut(eng.handlers, event_type, SortReverse(appended))]

\* index of the first HandlerInfo holding the handler, 0 when there is none
FirstIndexOf(list, handler) ==
    IF \E i \in 1..Len(list) : list[i].handler = handler
    THEN CHOOSE i \in 1..Len(list) :
            /\ list[i].handler = handler
            /\ \A j \in 1..(i - 1) : list[j].handler # handler
    ELSE 0

RemoveAt(list, i) == SubSeq(list, 1, i - 1) \o SubSeq(list, i + 1, Len(list))

\* a slip: every registration of the handler is removed
EngineUnregister_RemoveAll(eng, event_type, handler) ==
    LET list == DictGet(eng.handlers, event_type, << >>)
        Others(info) == info.handler # handler
    IN IF FirstIndexOf(list, handler) = 0 THEN [eng |-> eng, ret |-> FALSE]
       ELSE [eng |-> [eng EXCEPT !.handlers = DictPut(eng.handlers, event_type,
                                                      SelectSeq(list, Others))],
             ret |-> TRUE]

\* EventEngine.unregister: [eng, ret]
EngineUnregister(eng, event_type, handler) ==
    LET list == DictGet(eng.handlers, event_type, << >>)
        i == FirstIndexOf(list, handler)
    IN IF i = 0 THEN [eng |-> eng, ret |-> FALSE]
       ELSE [eng |-> [eng EXCEPT !.handlers = DictPut(eng.handlers, event_type,
                                                      RemoveAt(list, i))],
             ret |-> TRUE]

\* EventEngine.use
EngineUse(eng, middleware) ==
    [eng EXCEPT !.middlewares = Append(@, middleware)]

\* Dispatch state threaded through one top-level call:
\*   eng     the engine object
\*   log     the callables invoked so far
\*   nextEv  identity given to the next Event object created
\*   escaped TRUE once an exception has left a put
DispatchState(eng) == [eng |-> eng, log |-> << >>, nextEv |-> 2, escaped |-> FALSE]

NewEvent(type, id) == [type |-> type, id |-> id]

\* one invocation of a callable, as the log keeps it: the event it received
\* (ev, type), the put it belongs to (the identity of the event handed to
\* that put), the event it returned (out, out_type; NoEvent for None or no
\* return), the event it handed to emit itself (emitted, emitted_type) and
\* whether the invocation ended in the except clause of put
NoEvent == NewEvent("", 0)
LogEntry(kind, who, ev, info, put, out, emitted, failed) ==
    [ kind |-> kind, who |-> who, ev |-> ev.id, type |-> ev.type,
      priority |-> info.priority, reg |-> info.reg,
      put |-> put, out |-> out.id, out_type |-> out.type,
      emitted |-> emitted.id, emitted_type |-> emitted.type, failed |-> failed ]
NoInfo == [priority |-> 0, reg |-> 0]

\* a slip: the exception of a middleware is swallowed without being counted
OnMiddlewareError_Uncounted(st) == st

\* the except clause around a middleware call (engine.py:220-223)
OnMiddlewareError(st) == [st EXCEPT !.eng.error_count = @ + 1]

\* a slip: the loop goes on after a middleware returned None
OnMiddlewareDrop_Continue(r) == [r EXCEPT !.dropped = FALSE]

\* a middleware returned None (engine.py:216-219): put returns
OnMiddlewareDrop(r) == r

\* the middleware loop of put (engine.py:212-223): [st, ev, dropped]
RECURSIVE RunMiddlewares(_, _, _, _)
RunMiddlewares(st, ev, j, put) ==
    IF j > Len(st.eng.middlewares) THEN [st |-> st, ev |-> ev, dropped |-> FALSE]
    ELSE
      LET m == st.eng.middlewares[j]
          Logged(out, failed) ==
            [st EXCEPT !.log = Append(@, LogEntry("middleware", m, ev, NoInfo,
                                                  put, out, NoEvent, failed))]
      IN CASE m = "mPass"  -> RunMiddlewares(Logged(ev, FALSE), ev, j + 1, put)
           [] m = "mDrop"  ->
                LET r == OnMiddlewareDrop([st |-> Logged(NoEvent, FALSE), ev |-> ev,
                                           dropped |-> TRUE])
                IN IF r.dropped THEN r ELSE RunMiddlewares(r.st, ev, j + 1, put)
           [] m = "mRaise" ->
                RunMiddlewares(OnMiddlewareError(Logged(NoEvent, TRUE)), ev, j + 1, put)
           [] m = "mSubst" ->
                LET fresh == NewEvent(OtherType(ev.type), st.nextEv)
                IN RunMiddlewares([Logged(fresh, FALSE) EXCEPT !.nextEv = @ + 1],
                                  fresh, j + 1, put)

\* a slip: the exception of a handler is not caught
OnHandlerError_Propagate(st) == [st EXCEPT !.escaped = TRUE]

\* the except clause around a handler call (engine.py:233-240)
OnHandlerError(st) == [st EXCEPT !.eng.error_count = @ + 1]

\* a slip: the except clause lets the RecursionError of a nested put pass
OnRecursionError_Propagate(st) == [st EXCEPT !.escaped = TRUE]

\* the put of a returned event raised RecursionError inside the try of the
\* handler loop (engine.py:228-233); RecursionError is an Exception
OnRecursionError(st) == OnHandlerError(st)

\* a slip: an event is re-dispatched whenever the handler returned one
Redispatches_AnyEvent(result, current_event) == result # NoEvent

\* engine.py:230: result is not None and result is not current_event
Redispatches(result, current_event) ==
    result # NoEvent /\ result.id # current_event.id

\* a slip: the drop of a put made while stopped is counted as an event
OnNotRunning_Counted(st) == [st EXCEPT !.eng.event_count = @ + 1]

\* engine.py:205-207: a put made while not running logs a warning and returns
OnNotRunning(st) == st

\* a slip: put dispatches whether or not the engine is running
IsRunning_Always(eng) == TRUE

\* engine.py:205: self._running
IsRunning(eng) == eng.running

\* handlers that change the registry of the type they are invoked for:
\* hUnregSelf unregisters itself, hRegOnce registers hNone with the highest
\* priority unless hNone is registered already; both return None
MutatingHandlers == {"hNone", "hUnregSelf", "hRegOnce"}

\* the registry after the body of a handler ran (register and unregister as
\* called from inside a handler); a registration made there has reg 0
HandlerEffect(eng, h, event_type) ==
    CASE h = "hUnregSelf" -> EngineUnregister(eng, event_type, h).eng
      [] h = "hRegOnce" ->
            IF FirstIndexOf(DictGet(eng.handlers, event_type, << >>), "hNone") # 0
            THEN eng
            ELSE EngineRegister(eng, event_type, "hNone", 1, 0)
      [] OTHER -> eng

RECURSIVE EnginePut(_, _, _)
RECURSIVE RunHandlers(_, _, _, _, _)

\* the handler loop of put (engine.py:226-240); the loop reads the live list
RunHandlers(st, ev, i, depth, put) ==
    LET list == DictGet(st.eng.handlers, ev.type, << >>)
    IN
    IF st.escaped \/ i > Len(list) THEN st
    ELSE
      LET info == list[i]
          h == info.handler
          fresh == NewEvent(IF h = "hCallEmit" THEN NextType(ev.type)
                            ELSE OtherType(ev.type), st.nextEv)
          result == CASE h = "hNone"  -> NoEvent
                      [] h = "hRaise" -> NoEvent
                      [] h = "hSame"  -> ev
                      [] h = "hEmit"  -> fresh
                      [] h = "hCallEmit" -> NoEvent
                      [] OTHER -> NoEvent
          emitted == IF h = "hCallEmit" THEN fresh ELSE NoEvent
          nested == IF h = "hCallEmit" THEN TRUE ELSE Redispatches(result, ev)
          overflow == nested /\ depth + 1 > RecursionLimit
          st1 == [st EXCEPT !.log = Append(@, LogEntry("handler", h, ev, info, put, result,
                                                       emitted, h = "hRaise" \/ overflow)),
                            !.nextEv = IF h \in {"hEmit", "hCallEmit"} THEN @ + 1 ELSE @,
                            !.eng = HandlerEffect(@, h, ev.type)]
          st2 ==
            IF h = "hRaise" THEN OnHandlerError(st1)
            ELSE IF ~nested THEN st1
            ELSE IF overflow THEN OnRecursionError(st1)
            ELSE EnginePut(st1, fresh, depth + 1)
      IN RunHandlers(st2, ev, i + 1, depth, put)

\* EventEngine.put
EnginePut(st, event, depth) ==
    IF ~IsRunning(st.eng) THEN OnNotRunning(st)
    ELSE
      LET st1 == [st EXCEPT !.eng.event_count = @ + 1]
          m == RunMiddlewares(st1, event, 1, event.id)
      IN IF m.dropped THEN m.st
         ELSE RunHandlers(m.st, m.ev, 1, depth, event.id)

\* EventEngine.get_stats
GetStats(eng) ==
    [ running     |-> eng.running,
      event_count |-> eng.event_count,
      error_count |-> eng.error_count,
      handlers    |-> [t \in DOMAIN eng.handlers |-> Len(eng.handlers[t])],
      middlewares |-> Len(eng.middlewares) ]

\* a slip: start leaves the counters as they are
EngineStart_KeepCounts(st) ==
    EnginePut([st EXCEPT !.eng.running = TRUE], NewEvent("START", 1), 1)

\* EventEngine.start
EngineStart(st) ==
    EnginePut([st EXCEPT !.eng.running = TRUE,
                         !.eng.event_count = 0,
                         !.eng.error_count = 0],
              NewEvent("START", 1), 1)

\* EventEngine.stop
EngineStop(st) ==
    LET st1 == EnginePut(st, NewEvent("STOP", 1), 1)
    IN IF st1.escaped THEN st1 ELSE [st1 EXCEPT !.eng.running = FALSE]

\* ------------------------------------------------------------------------
\* EventEngine calls as actions
\* ------------------------------------------------------------------------
\* number of invocations in the log whose put of a further event was entered
NestedPuts(log) ==
    Cardinality({k \in 1..Len(log) :
                    /\ log[k].kind = "handler" /\ ~log[k].failed
                    /\ \/ log[k].emitted # NoEvent.id
                       \/ log[k].out # NoEvent.id /\ log[k].out # log[k].ev})

NoneSinceStart == [emitted |-> 0, accepted |-> 0, plain |-> TRUE, puts |-> 0]

\* the record after one more call: emitted START or STOP events, puts of the
\* caller and re-dispatched events it added; puts counts the caller's puts
\* for as long as nothing was re-dispatched (plain)
Accepted(ss, emitted, puts, nested) ==
    LET plain == ss.plain /\ nested = 0
    IN [emitted |-> ss.emitted + emitted,
        accepted |-> ss.accepted + emitted + puts + nested,
        plain |-> plain,
        puts |-> IF plain THEN ss.puts + puts ELSE 0]

BusInit ==
    /\ engine = NewEngine
    /\ nextReg = 0
    /\ busLog = << >>
    /\ sinceStart = NoneSinceStart

Register(event_type, handler, priority) ==
    /\ nextReg < MaxRegs
    /\ nextReg + Len(engine.middlewares) < MaxCallables
    /\ engine' = EngineRegister(engine, event_type, handler, priority, nextReg + 1)
    /\ nextReg' = nextReg + 1
    /\ busLog' = << >>
    /\ lastCall' = [op |-> "register", type |-> event_type, ok |-> TRUE]
    /\ UNCHANGED <<sinceStart, pfVars, pmVars, riskVars, ctxVars, btVars, hookVars, cacheVars>>

Unregister(event_type, handler) ==
    \E r \in {EngineUnregister(engine, event_type, handler)} :
       /\ engine' = r.eng
       /\ busLog' = << >>
       /\ lastCall' = [op |-> "unregister", type |-> event_type, ok |-> r.ret]
       /\ UNCHANGED <<nextReg, sinceStart, pfVars, pmVars, riskVars, ctxVars, btVars, hookVars, cacheVars>>

Use(middleware) ==
    /\ Len(engine.middlewares) < MaxMiddlewares
    /\ nextReg + Len(engine.middlewares) < MaxCallables
    /\ engine' = EngineUse(engine, middleware)
    /\ busLog' = << >>
    /\ lastCall' = [op |-> "use", type |-> "", ok |-> TRUE]
    /\ UNCHANGED <<nextReg, sinceStart, pfVars, pmVars, riskVars, ctxVars, btVars, hookVars, cacheVars>>

Put(event_type) ==
    /\ ~engine.running \/ engine.event_count < MaxEvents
    /\ \E st \in {EnginePut(DispatchState(engine), NewEvent(event_type, 1), 1)} :
          /\ engine' = st.eng
          /\ busLog' = st.log
          /\ lastCall' = [op |-> "put", type |-> event_type, ok |-> ~st.escaped]
          /\ sinceStart' = IF engine.running
                           THEN Accepted(sinceStart, 0, 1, NestedPuts(st.log))
                           ELSE sinceStart
    /\ UNCHANGED <<nextReg, pfVars, pmVars, riskVars, ctxVars, btVars, hookVars, cacheVars>>

Start ==
    \E st \in {EngineStart(DispatchState(engine))} :
       /\ engine' = st.eng
       /\ busLog' = st.log
       /\ lastCall' = [op |-> "start", type |-> "START", ok |-> ~st.escaped]
       /\ sinceStart' = Accepted(NoneSinceStart, 1, 0, NestedPuts(st.log))
       /\ UNCHANGED <<nextReg, pfVars, pmVars, riskVars, ctxVars, btVars, hookVars, cacheVars>>

Stop ==
    \E st \in {EngineStop(DispatchState(engine))} :
       /\ engine' = st.eng
       /\ busLog' = st.log
       /\ lastCall' = [op |-> "stop", type |-> "STOP", ok |-> ~st.escaped]
       /\ sinceStart' = IF engine.running
                        THEN Accepted(sinceStart, 1, 0, NestedPuts(st.log))
                        ELSE sinceStart
       /\ UNCHANGED <<nextReg, pfVars, pmVars, riskVars, ctxVars, btVars, hookVars, cacheVars>>

BusNext ==
    \/ \E t \in RegTypes, h \in Handlers, p \in Priorities : Register(t, h, p)
    \/ \E t \in RegTypes, h \in Handlers : Unregister(t, h)
    \/ \E m \in Middlewares : Use(m)
    \/ \E t \in PutTypes : Put(t)
    \/ Start
    \/ Stop

\* unregister, the handler it was called with kept in the record of the call
UnregisterCall(event_type, handler) ==
    \E r \in {EngineUnregister(engine, event_type, handler)} :
       /\ engine' = r.eng
       /\ busLog' = << >>
       /\ lastCall' = [op |-> "unregister", type |-> event_type, handler |-> handler,
                        ok |-> r.ret]
       /\ UNCHANGED <<nextReg, sinceStart, pfVars, pmVars, riskVars, ctxVars, btVars, hookVars, cacheVars>>

\* the registry of the bus: handlers and middlewares come and handlers go
UnregisterNext ==
    \/ \E t \in RegTypes, h \in Handlers, p \in Priorities : Register(t, h, p)
    \/ \E m \in Middlewares : Use(m)
    \/ \E t \in RegTypes, h \in Handlers : UnregisterCall(t, h)

\* handlers that register and unregister handlers of the type dispatched
DispatchNext ==
    \/ \E h \in MutatingHandlers, p \in Priorities : Register("BAR", h, p)
    \/ Put("BAR")
    \/ Start

\* register_handler(type, handler): register with the default priority
RegisterHandler(event_type, handler) ==
    /\ nextReg < MaxCallables
    /\ engine' = EngineRegister(engine, event_type, handler, 0, nextReg + 1)
    /\ nextReg' = nextReg + 1
    /\ busLog' = << >>
    /\ lastCall' = [op |-> "register_handler", type |-> event_type, ok |-> TRUE]
    /\ UNCHANGED <<sinceStart, pfVars, pmVars, riskVars, ctxVars, btVars, hookVars, cacheVars>>

\* emit(event): put
Emit(event_type) ==
    /\ ~engine.running \/ engine.event_count < MaxEvents
    /\ \E st \in {EnginePut(DispatchState(engine), NewEvent(event_type, 1), 1)} :
          /\ engine' = st.eng
          /\ busLog' = st.log
          /\ lastCall' = [op |-> "emit", type |-> event_type, ok |-> ~st.escaped]
          /\ sinceStart' = IF engine.running
                           THEN Accepted(sinceStart, 0, 1, NestedPuts(st.log))
                           ELSE sinceStart
    /\ UNCHANGED <<nextReg, pfVars, pmVars, riskVars, ctxVars, btVars, hookVars, cacheVars>>

\* the bus driven through its second surface
SurfaceNext ==
    \/ \E t \in SurfaceTypes, h \in SurfaceHandlers : RegisterHandler(t, h)
    \/ \E t \in SurfaceTypes : Emit(t)
    \/ Start
    \/ Stop

\* ------------------------------------------------------------------------
\* plugins/manager.py
\* ------------------------------------------------------------------------
MaxDeps == 2            \* dependencies declared by one plugin

PluginNames == {"a", "b", "c"}
DependencySets == {D \in SUBSET PluginNames : Cardinality(D) <= MaxDeps}

\* PluginManager.__init__; _plugins is a dict in registration order, kept as
\* the sequence of its (name, dependencies) items
NewManager ==
    [ plugins     |-> << >>,
      initialized |-> FALSE,
      init_order  |-> << >> ]

RegisteredNames(pm) == {pm.plugins[i].name : i \in 1..Len(pm.plugins)}

PluginNamed(pm, name) ==
    pm.plugins[CHOOSE i \in 1..Len(pm.plugins) : pm.plugins[i].name = name]

\* PluginManager.register: [ok, pm]; ok = FALSE stands for the ValueError
ManagerRegister(pm, name, dependencies) ==
    IF name \in RegisteredNames(pm) THEN [ok |-> FALSE, pm |-> pm]
    ELSE [ok |-> TRUE,
          pm |-> [pm EXCEPT !.plugins =
                    Append(@, [name |-> name, dependencies |-> dependencies])]]

\* PluginManager.unregister
ManagerUnregister(pm, name) ==
    LET Keep(p) == p.name # name
    IN [pm EXCEPT !.plugins = SelectSeq(@, Keep)]

\* PluginManager._check_dependencies: TRUE when it raises
CheckDependenciesRaises(pm) ==
    \E i \in 1..Len(pm.plugins) :
        \E dep \in pm.plugins[i].dependencies : dep \notin RegisteredNames(pm)

\* dfs of _detect_cycles (manager.py:138-149): [raised, visited]; a name that
\* is not registered raises KeyError at the lookup
RECURSIVE Dfs(_, _, _, _)
RECURSIVE DfsDeps(_, _, _, _)
Dfs(pm, name, visiting, visited) ==
    IF name \in visiting THEN [raised |-> TRUE, visited |-> visited]
    ELSE IF name \in visited THEN [raised |-> FALSE, visited |-> visited]
    ELSE IF name \notin RegisteredNames(pm) THEN [raised |-> TRUE, visited |-> visited]
    ELSE LET r == DfsDeps(pm, PluginNamed(pm, name).dependencies,
                          visiting \cup {name}, visited)
         IN IF r.raised THEN r
            ELSE [raised |-> FALSE, visited |-> r.visited \cup {name}]

DfsDeps(pm, deps, visiting, visited) ==
    IF deps = {} THEN [raised |-> FALSE, visited |-> visited]
    ELSE LET dep == CHOOSE d \in deps : TRUE
             r == Dfs(pm, dep, visiting, visited)
         IN IF r.raised THEN r
            ELSE DfsDeps(pm, deps \ {dep}, visiting, r.visited)

\* PluginManager._detect_cycles: TRUE when it raises
RECURSIVE DetectCyclesFrom(_, _, _)
DetectCyclesFrom(pm, i, visited) ==
    IF i > Len(pm.plugins) THEN FALSE
    ELSE LET name == pm.plugins[i].name
         IN IF name \in visited THEN DetectCyclesFrom(pm, i + 1, visited)
            ELSE LET r == Dfs(pm, name, {}, visited)
                 IN IF r.raised THEN TRUE
                    ELSE DetectCyclesFrom(pm, i + 1, r.visited)

DetectCyclesRaises(pm) == DetectCyclesFrom(pm, 1, {})

\* the while loop of _resolve_order (manager.py:106-113)
RECURSIVE Kahn(_, _, _, _)
Kahn(pm, queue, order, indegree) ==
    IF queue = << >> THEN order
    ELSE
      LET current == Head(queue)
          \* graph[current]: the dependents of current, in registration order
          IsNeighbor(p) == current \in p.dependencies
          neighbors == SelectSeq(pm.plugins, IsNeighbor)
          indegree1 == [n \in DOMAIN indegree |->
                          IF \E k \in 1..Len(neighbors) : neighbors[k].name = n
                          THEN indegree[n] - 1 ELSE indegree[n]]
          IsReady(p) == indegree1[p.name] = 0
          ready == SelectSeq(neighbors, IsReady)
      IN Kahn(pm, Tail(queue) \o [k \in 1..Len(ready) |-> ready[k].name],
              Append(order, current), indegree1)

\* a slip: the registration order is returned without sorting
ResolveOrder_Registration(pm) ==
    [ok |-> TRUE, order |-> [i \in 1..Len(pm.plugins) |-> pm.plugins[i].name]]

\* PluginManager._resolve_order: [ok, order]; ok = FALSE when it raises
\* (KeyError for an unregistered dependency, ValueError for a cycle)
ResolveOrder(pm) ==
    IF CheckDependenciesRaises(pm) THEN [ok |-> FALSE, order |-> << >>]
    ELSE
      LET indegree == [n \in RegisteredNames(pm) |->
                         Cardinality(PluginNamed(pm, n).dependencies)]
          IsRoot(p) == indegree[p.name] = 0
          roots == SelectSeq(pm.plugins, IsRoot)
          order == Kahn(pm, [k \in 1..Len(roots) |-> roots[k].name], << >>, indegree)
      IN IF Len(order) # Len(pm.plugins) THEN [ok |-> FALSE, order |-> << >>]
         ELSE [ok |-> TRUE, order |-> order]

LifecycleCalls(kind, names) == [i \in 1..Len(names) |-> [call |-> kind, name |-> names[i]]]

Reverse(seq) == [i \in 1..Len(seq) |-> seq[Len(seq) + 1 - i]]

\* a slip: the early return of initialize is missing
AlreadyInitialized_Never(pm) == FALSE

\* the early return of initialize (manager.py:65-66)
AlreadyInitialized(pm) == pm.initialized

\* a slip: setup runs in registration order before the dependency checks
ManagerInitialize_SetupFirst(pm) ==
    LET names == [i \in 1..Len(pm.plugins) |-> pm.plugins[i].name]
    IN IF pm.initialized THEN [ok |-> TRUE, pm |-> pm, calls |-> << >>]
       ELSE IF CheckDependenciesRaises(pm) \/ DetectCyclesRaises(pm)
       THEN [ok |-> FALSE, pm |-> pm, calls |-> LifecycleCalls("setup", names)]
       ELSE [ok |-> TRUE,
             pm |-> [pm EXCEPT !.init_order = names, !.initialized = TRUE],
             calls |-> LifecycleCalls("setup", names)]

\* What the setup and the teardown of each plugin class used do: they
\* return, but for the setup of x and the teardown of y, which raise
LifecycleRaises(kind, name) ==
    \/ kind = "setup" /\ name = "x"
    \/ kind = "teardown" /\ name = "y"

\* the setup loop of initialize (manager.py:72-73): the names setup is
\* called on, up to the first that raises, and whether one raised
RECURSIVE SetupLoop(_)
SetupLoop(names) ==
    IF names = << >> THEN [called |-> << >>, raised |-> FALSE]
    ELSE IF LifecycleRaises("setup", Head(names))
    THEN [called |-> <<Head(names)>>, raised |-> TRUE]
    ELSE With(SetupLoop(Tail(names)),
              LAMBDA rest : [called |-> <<Head(names)>> \o rest.called,
                             raised |-> rest.raised])

\* PluginManager.initialize: [ok, pm, calls]; calls are the setups made
ManagerInitialize(pm) ==
    IF AlreadyInitialized(pm) THEN [ok |-> TRUE, pm |-> pm, calls |-> << >>]
    ELSE IF CheckDependenciesRaises(pm) THEN [ok |-> FALSE, pm |-> pm, calls |-> << >>]
    ELSE IF DetectCyclesRaises(pm) THEN [ok |-> FALSE, pm |-> pm, calls |-> << >>]
    ELSE LET r == ResolveOrder(pm)
         IN IF ~r.ok THEN [ok |-> FALSE, pm |-> pm, calls |-> << >>]
            ELSE With(SetupLoop(r.order),
                      LAMBDA s :
                        IF s.raised
                        THEN [ok |-> FALSE, pm |-> pm,
                              calls |-> LifecycleCalls("setup", s.called)]
                        ELSE [ok |-> TRUE,
                              pm |-> [pm EXCEPT !.init_order = r.order,
                                                !.initialized = TRUE],
                              calls |-> LifecycleCalls("setup", s.called)])

\* the teardown loop of shutdown (manager.py:87-88): the names teardown is
\* called on, and whether the loop was left by an exception: the KeyError of
\* the lookup of an unregistered name, or what a teardown raised
RECURSIVE TornDown(_, _)
TornDown(pm, names) ==
    IF names = << >> THEN [called |-> << >>, raised |-> FALSE]
    ELSE IF Head(names) \notin RegisteredNames(pm)
    THEN [called |-> << >>, raised |-> TRUE]
    ELSE IF LifecycleRaises("teardown", Head(names))
    THEN [called |-> <<Head(names)>>, raised |-> TRUE]
    ELSE With(TornDown(pm, Tail(names)),
              LAMBDA rest : [called |-> <<Head(names)>> \o rest.called,
                             raised |-> rest.raised])

\* PluginManager.shutdown: [ok, pm, calls]; calls are the teardowns made
ManagerShutdown(pm) ==
    IF ~pm.initialized THEN [ok |-> TRUE, pm |-> pm, calls |-> << >>]
    ELSE With(TornDown(pm, Reverse(pm.init_order)),
              LAMBDA done :
                IF done.raised
                THEN [ok |-> FALSE, pm |-> pm,
                      calls |-> LifecycleCalls("teardown", done.called)]
                ELSE [ok |-> TRUE,
                      pm |-> [pm EXCEPT !.initialized = FALSE, !.init_order = << >>],
                      calls |-> LifecycleCalls("teardown", done.called)])

\* hook names called on the manager
HookNames == {"on_bar", "on_error"}

\* What getattr(plugin, hook_name, None) finds on each plugin class used:
\* a method returning a value, a method that raises, an attribute that is
\* not callable, or nothing.
HookMember(name, hook_name) ==
    CASE hook_name = "on_bar" /\ name = "b" -> "absent"
      [] hook_name = "on_error" /\ name = "b" -> "not_callable"
      [] hook_name = "on_error" /\ name = "c" -> "raises"
      [] OTHER -> "returns"

HookInvocation(hook_name, name) == [call |-> hook_name, name |-> name]

\* the loop of call_hook over self._plugins.values(), from the i-th plugin
RECURSIVE CallHookFrom(_, _, _)
CallHookFrom(plugins, hook_name, i) ==
    IF i > Len(plugins) THEN [ok |-> TRUE, results |-> << >>, calls |-> << >>]
    ELSE LET name == plugins[i].name
             member == HookMember(name, hook_name)
         IN CASE member \in {"absent", "not_callable"} ->
                   CallHookFrom(plugins, hook_name, i + 1)
              [] member = "raises" ->
                   [ok |-> FALSE, results |-> << >>,
                    calls |-> <<HookInvocation(hook_name, name)>>]
              [] OTHER ->
                   With(CallHookFrom(plugins, hook_name, i + 1),
                        LAMBDA rest :
                          [ok |-> rest.ok,
                           results |-> IF rest.ok THEN <<name>> \o rest.results
                                       ELSE << >>,
                           calls |-> <<HookInvocation(hook_name, name)>> \o rest.calls])

\* a slip: the plugins are visited last-registered first
ManagerCallHook_Reversed(pm, hook_name) ==
    CallHookFrom(Reverse(pm.plugins), hook_name, 1)

\* PluginManager.call_hook: [ok, results, calls]; ok is FALSE when a hook
\* raised, and then no list is returned
ManagerCallHook(pm, hook_name) == CallHookFrom(pm.plugins, hook_name, 1)

\* ------------------------------------------------------------------------
\* PluginManager calls as actions
\* ------------------------------------------------------------------------
NoInit == [calls |-> << >>, changed |-> FALSE]

\* the names of the calls that returned: all of them, or all but the last
\* when the loop was left by an exception a call raised
Completed(calls, ok) ==
    {calls[i].name : i \in 1..(IF ok THEN Len(calls) ELSE Len(calls) - 1)}

PluginInit ==
    /\ manager = NewManager
    /\ pmLog = << >>
    /\ lastInit = NoInit
    /\ setUp = {}

PluginRegister(name, dependencies) ==
    LET r == ManagerRegister(manager, name, dependencies)
    IN /\ manager' = r.pm
       /\ pmLog' = << >>
       /\ lastInit' = IF manager.initialized /\ r.ok
                       THEN [lastInit EXCEPT !.changed = TRUE] ELSE lastInit
       /\ lastCall' = [op |-> "plugin_register", ok |-> r.ok]
       /\ UNCHANGED setUp
       /\ UNCHANGED <<pfVars, busVars, riskVars, ctxVars, btVars, hookVars, cacheVars>>

PluginUnregister(name) ==
    /\ manager' = ManagerUnregister(manager, name)
    /\ pmLog' = << >>
    /\ lastInit' = IF manager.initialized /\ manager' # manager
                    THEN [lastInit EXCEPT !.changed = TRUE] ELSE lastInit
    /\ lastCall' = [op |-> "plugin_unregister", ok |-> TRUE]
    /\ UNCHANGED setUp
    /\ UNCHANGED <<pfVars, busVars, riskVars, ctxVars, btVars, hookVars, cacheVars>>

Initialize ==
    \E r \in {ManagerInitialize(manager)} :
       /\ manager' = r.pm
       /\ pmLog' = r.calls
       /\ lastInit' = IF manager.initialized \/ ~r.ok THEN lastInit
                       ELSE [calls |-> r.calls, changed |-> FALSE]
       /\ UNCHANGED setUp
       /\ lastCall' = [op |-> "initialize", ok |-> r.ok]
       /\ UNCHANGED <<pfVars, busVars, riskVars, ctxVars, btVars, hookVars, cacheVars>>

Shutdown ==
    \E r \in {ManagerShutdown(manager)} :
       /\ manager' = r.pm
       /\ pmLog' = r.calls
       /\ lastInit' = IF r.ok THEN NoInit ELSE lastInit
       /\ UNCHANGED setUp
       /\ lastCall' = [op |-> "shutdown", ok |-> r.ok]
       /\ UNCHANGED <<pfVars, busVars, riskVars, ctxVars, btVars, hookVars, cacheVars>>

CallHook(hook_name) ==
    \E r \in {ManagerCallHook(manager, hook_name)} :
       /\ pmLog' = r.calls
       /\ lastCall' = [op |-> "call_hook", ok |-> r.ok, hook |-> hook_name,
                       results |-> r.results]
       /\ UNCHANGED <<manager, lastInit, setUp>>
       /\ UNCHANGED <<pfVars, busVars, riskVars, ctxVars, btVars, hookVars, cacheVars>>

\* plugin classes whose setup or teardown may raise, among others
LifecycleNames == {"a", "x", "y"}

\* initialize, with the plugins that are set up kept track of
LifecycleInitialize ==
    \E r \in {ManagerInitialize(manager)} :
       /\ manager' = r.pm
       /\ pmLog' = r.calls
       /\ lastInit' = IF manager.initialized \/ ~r.ok THEN lastInit
                       ELSE [calls |-> r.calls, changed |-> FALSE]
       /\ setUp' = setUp \cup Completed(r.calls, r.ok)
       /\ lastCall' = [op |-> "initialize", ok |-> r.ok]
       /\ UNCHANGED <<pfVars, busVars, riskVars, ctxVars, btVars, hookVars, cacheVars>>

\* shutdown, with the plugins that are set up kept track of
LifecycleShutdown ==
    \E r \in {ManagerShutdown(manager)} :
       /\ manager' = r.pm
       /\ pmLog' = r.calls
       /\ lastInit' = IF r.ok THEN NoInit ELSE lastInit
       /\ setUp' = setUp \ {r.calls[i].name : i \in 1..Len(r.calls)}
       /\ lastCall' = [op |-> "shutdown", ok |-> r.ok]
       /\ UNCHANGED <<pfVars, busVars, riskVars, ctxVars, btVars, hookVars, cacheVars>>

\* plugins whose lifecycle calls may raise are registered, initialized and
\* shut down
LifecycleNext ==
    \/ \E n \in LifecycleNames, D \in SUBSET LifecycleNames :
          Cardinality(D) <= 1 /\ PluginRegister(n, D)
    \/ LifecycleInitialize
    \/ LifecycleShutdown

PluginNext ==
    \/ \E n \in PluginNames, D \in DependencySets : PluginRegister(n, D)
    \/ \E n \in PluginNames : PluginUnregister(n)
    \/ Initialize
    \/ Shutdown
    \/ \E h \in HookNames : CallHook(h)

\* ------------------------------------------------------------------------
\* core/risk.py
\* ------------------------------------------------------------------------
MaxRules == 2           \* rules held by the manager
MaxRiskTrades == 1      \* trades made on the portfolio handed to the checks

Half == Rat(1, 2)

\* the built-in rules, each with one admissible parameter
BuiltinRules ==
    { [kind |-> "StopLoss",         param |-> Half],
      [kind |-> "TakeProfit",       param |-> Half],
      [kind |-> "MaxPositionRatio", param |-> Half],
      [kind |-> "MaxHoldings",      param |-> RatInt(1)],
      [kind |-> "MaxTradeAmount",   param |-> RatInt(2)] }

\* MaxPositionRatioRule instances: max_ratio inside (0, 1] and at its end
RatioRules ==
    { [kind |-> "MaxPositionRatio", param |-> Half],
      [kind |-> "MaxPositionRatio", param |-> RatInt(1)] }

\* an order mapping; NoPrice stands for a missing price key
NoPrice == -1
ValidOrders ==
    [ symbol   : Symbols,
      side     : {"BUY", "sell"},
      quantity : 1..MaxQty,
      price    : 1..MaxPrice ]
\* one order per way of breaking the Order invariants
InvalidOrders ==
    { [symbol |-> NoSymbol, side |-> "BUY", quantity |-> 1, price |-> 1],
      [symbol |-> "A", side |-> "", quantity |-> 1, price |-> 1],
      [symbol |-> "A", side |-> "HOLD", quantity |-> 1, price |-> 1],
      [symbol |-> "A", side |-> "BUY", quantity |-> 0, price |-> 1],
      [symbol |-> "A", side |-> "BUY", quantity |-> 1, price |-> 0],
      [symbol |-> "A", side |-> "BUY", quantity |-> 1, price |-> NoPrice] }
Orders == ValidOrders \cup InvalidOrders

\* the prices mappings handed to a check
PriceMaps == {<< >>, [s \in Symbols |-> RatInt(MaxPrice)]}

\* str.upper on the sides used
Upper(side) == IF side = "sell" THEN "SELL" ELSE side

\* _read_order_symbol, _read_order_quantity, _read_order_price,
\* _read_order_side: TRUE when the read raises ValueError
ReadOrderSymbolRaises(order) == order.symbol = NoSymbol
ReadOrderQuantityRaises(order) == order.quantity <= 0
ReadOrderPriceRaises(order) == order.price = NoPrice \/ order.price <= 0
ReadOrderSideRaises(order) == order.side = ""

\* Portfolio.get_total_value
GetTotalValue(pf, prices) ==
    LET held == DOMAIN pf.positions
        Value(s) == RatMul(RatInt(pf.positions[s].quantity),
                           DictGet(prices, s, pf.positions[s].cost))
        RECURSIVE Sum(_)
        Sum(keys) == IF keys = {} THEN RatZero
                     ELSE LET k == CHOOSE x \in keys : TRUE
                          IN RatAdd(Value(k), Sum(keys \ {k}))
    IN RatAdd(pf.cash, Sum(held))

Violation(kind, symbol) == [rule |-> kind, symbol |-> symbol]
NoViolations == [raised |-> FALSE, violations |-> << >>]
OrderReadError == [raised |-> TRUE, violations |-> << >>]

\* a slip: the holding already in the portfolio is left out of the projection
MaxPositionRatioCheckOrder_IgnoreHolding(rule, order, pf, prices) ==
    IF ReadOrderSideRaises(order) THEN OrderReadError
    ELSE IF Upper(order.side) # "BUY" THEN NoViolations
    ELSE IF ReadOrderSymbolRaises(order) \/ ReadOrderQuantityRaises(order)
            \/ ReadOrderPriceRaises(order) THEN OrderReadError
    ELSE IF RatLe(GetTotalValue(pf, prices), RatZero) THEN NoViolations
    ELSE IF RatLt(RatMul(rule.param, GetTotalValue(pf, prices)),
                  RatMul(RatInt(order.quantity), RatInt(order.price)))
    THEN [raised |-> FALSE,
          violations |-> <<Violation("MaxPositionRatio", order.symbol)>>]
    ELSE NoViolations

\* MaxPositionRatioRule.check_order
MaxPositionRatioCheckOrder(rule, order, pf, prices) ==
    IF ReadOrderSideRaises(order) THEN OrderReadError
    ELSE IF Upper(order.side) # "BUY" THEN NoViolations
    ELSE IF ReadOrderSymbolRaises(order) \/ ReadOrderQuantityRaises(order)
            \/ ReadOrderPriceRaises(order) THEN OrderReadError
    ELSE
      LET price == RatInt(order.price)
          total_value == GetTotalValue(pf, prices)
          held == order.symbol \in DOMAIN pf.positions
          current_quantity == IF held THEN pf.positions[order.symbol].quantity ELSE 0
          current_price == DictGet(prices, order.symbol,
                                   IF held THEN pf.positions[order.symbol].cost ELSE price)
          projected_value == RatAdd(RatMul(RatInt(current_quantity), current_price),
                                    RatMul(RatInt(order.quantity), price))
      IN IF RatLe(total_value, RatZero) THEN NoViolations
         \* ratio = projected_value / total_value > max_ratio, total_value > 0
         ELSE IF RatLt(RatMul(rule.param, total_value), projected_value)
         THEN [raised |-> FALSE,
               violations |-> <<Violation("MaxPositionRatio", order.symbol)>>]
         ELSE NoViolations

\* MaxHoldingsRule.check_order
MaxHoldingsCheckOrder(rule, order, pf, prices) ==
    IF ReadOrderSideRaises(order) THEN OrderReadError
    ELSE IF Upper(order.side) # "BUY" THEN NoViolations
    ELSE IF ReadOrderSymbolRaises(order) THEN OrderReadError
    ELSE IF order.symbol \in DOMAIN pf.positions THEN NoViolations
    ELSE IF Cardinality(DOMAIN pf.positions) >= rule.param.n
    THEN [raised |-> FALSE, violations |-> <<Violation("MaxHoldings", order.symbol)>>]
    ELSE NoViolations

\* MaxTradeAmountRule.check_order
MaxTradeAmountCheckOrder(rule, order, pf, prices) ==
    IF ReadOrderQuantityRaises(order) \/ ReadOrderPriceRaises(order) THEN OrderReadError
    ELSE IF RatLt(rule.param, RatMul(RatInt(order.quantity), RatInt(order.price)))
    THEN [raised |-> FALSE, violations |-> <<Violation("MaxTradeAmount", order.symbol)>>]
    ELSE NoViolations

\* what one rule's check_order computes: [raised, violations]
RuleOrderViolations(rule, order, pf, prices) ==
    CASE rule.kind = "StopLoss"         -> NoViolations
      [] rule.kind = "TakeProfit"       -> NoViolations
      [] rule.kind = "MaxPositionRatio" -> MaxPositionRatioCheckOrder(rule, order, pf, prices)
      [] rule.kind = "MaxHoldings"      -> MaxHoldingsCheckOrder(rule, order, pf, prices)
      [] rule.kind = "MaxTradeAmount"   -> MaxTradeAmountCheckOrder(rule, order, pf, prices)

\* a slip: the ratio rule projects the fill by executing it on the portfolio
RuleCheckOrder_SimulateFill(rule, order, pf, prices) ==
    LET r == RuleOrderViolations(rule, order, pf, prices)
    IN [raised |-> r.raised, violations |-> r.violations,
        pf |-> IF rule.kind = "MaxPositionRatio" /\ ~r.raised /\ Upper(order.side) = "BUY"
               THEN PortfolioBuy(pf, order.symbol, order.quantity,
                                 RatInt(order.price), 1).pf
               ELSE pf]

\* RiskRule.check_order as called by the manager: the rule receives the
\* portfolio object itself; pf is the portfolio as the call leaves it
RuleCheckOrder(rule, order, pf, prices) ==
    With(RuleOrderViolations(rule, order, pf, prices),
         LAMBDA r : [raised |-> r.raised, violations |-> r.violations, pf |-> pf])

\* what one rule's check_position computes: the violations
RulePositionViolations(rule, symbol, position, price) ==
    CASE rule.kind = "StopLoss" ->
           \* price <= cost * (1 - stop_loss_pct)
           IF RatLe(price, RatMul(position.cost, RatSub(RatInt(1), rule.param)))
           THEN <<Violation("StopLoss", symbol)>> ELSE << >>
      [] rule.kind = "TakeProfit" ->
           \* price >= cost * (1 + take_profit_pct)
           IF RatLe(RatMul(position.cost, RatAdd(RatInt(1), rule.param)), price)
           THEN <<Violation("TakeProfit", symbol)>> ELSE << >>
      [] OTHER -> << >>

\* RiskRule.check_position as called by the manager: the rule receives the
\* Position object itself; position is the object as the call leaves it
RuleCheckPosition(rule, symbol, position, price) ==
    [violations |-> RulePositionViolations(rule, symbol, position, price),
     position   |-> position]

\* RiskManager.__init__
NewRiskManager == [rules |-> << >>, violations |-> << >>]

\* RiskManager.add_rule
RiskAddRule(rm, rule) == [rm EXCEPT !.rules = Append(@, rule)]

\* RiskManager.get_violations: a copy of the latest violations
GetViolations(rm) == rm.violations

\* one call of a rule's check_order, with what it gave back
RuleCall(rule, r) == [rule |-> rule.kind, raised |-> r.raised, violations |-> r.violations]

\* a slip: the loop ends at the first rule that reports a violation
RECURSIVE CheckOrderLoop_ShortCircuit(_, _, _, _, _, _)
CheckOrderLoop_ShortCircuit(rm, i, order, pf, prices, violations) ==
    IF i > Len(rm.rules) \/ violations # << >>
    THEN [raised |-> FALSE, violations |-> violations, pf |-> pf, calls |-> << >>]
    ELSE With(RuleCheckOrder(rm.rules[i], order, pf, prices),
              LAMBDA r :
                IF r.raised
                THEN [raised |-> TRUE, violations |-> violations, pf |-> r.pf,
                      calls |-> <<RuleCall(rm.rules[i], r)>>]
                ELSE With(CheckOrderLoop_ShortCircuit(rm, i + 1, order, r.pf, prices,
                                                      violations \o r.violations),
                          LAMBDA rest :
                            [rest EXCEPT !.calls = <<RuleCall(rm.rules[i], r)>> \o @]))

\* the rule loop of check_order (risk.py:241-243): [raised, violations, pf,
\* calls]; violations holds those collected before the i-th rule, calls the
\* rules called from the i-th on
RECURSIVE CheckOrderLoop(_, _, _, _, _, _)
CheckOrderLoop(rm, i, order, pf, prices, violations) ==
    IF i > Len(rm.rules)
    THEN [raised |-> FALSE, violations |-> violations, pf |-> pf, calls |-> << >>]
    ELSE With(RuleCheckOrder(rm.rules[i], order, pf, prices),
              LAMBDA r :
                IF r.raised
                THEN [raised |-> TRUE, violations |-> violations, pf |-> r.pf,
                      calls |-> <<RuleCall(rm.rules[i], r)>>]
                ELSE With(CheckOrderLoop(rm, i + 1, order, r.pf, prices,
                                         violations \o r.violations),
                          LAMBDA rest :
                            [rest EXCEPT !.calls = <<RuleCall(rm.rules[i], r)>> \o @]))

\* RiskManager.check_order: [raised, rm, pf, passed, violations, calls]
RiskCheckOrder(rm, order, pf, prices) ==
    With(CheckOrderLoop(rm, 1, order, pf, prices, << >>),
         LAMBDA r :
           IF r.raised
           THEN [raised |-> TRUE, rm |-> rm, pf |-> r.pf,
                 passed |-> FALSE, violations |-> << >>, calls |-> r.calls]
           ELSE [raised |-> FALSE, rm |-> [rm EXCEPT !.violations = r.violations],
                 pf |-> r.pf, passed |-> r.violations = << >>,
                 violations |-> r.violations, calls |-> r.calls])

\* the rule loop of check_position (risk.py:252-254): [violations, position]
RECURSIVE CheckPositionLoop(_, _, _, _, _, _)
CheckPositionLoop(rm, i, symbol, position, price, violations) ==
    IF i > Len(rm.rules) THEN [violations |-> violations, position |-> position]
    ELSE With(RuleCheckPosition(rm.rules[i], symbol, position, price),
              LAMBDA r : CheckPositionLoop(rm, i + 1, symbol, r.position, price,
                                           violations \o r.violations))

\* RiskManager.check_position: [rm, position, passed, violations]
RiskCheckPosition(rm, symbol, position, price) ==
    With(CheckPositionLoop(rm, 1, symbol, position, price, << >>),
         LAMBDA r : [rm |-> [rm EXCEPT !.violations = r.violations],
                     position |-> r.position,
                     passed |-> r.violations = << >>,
                     violations |-> r.violations])

\* the Order invariants of the data model, as far as the mapping carries them
ValidOrder(order) ==
    /\ order.symbol # NoSymbol
    /\ Upper(order.side) \in {"BUY", "SELL"}
    /\ order.quantity > 0
    /\ order.price > 0

\* ------------------------------------------------------------------------
\* RiskManager calls as actions
\* ------------------------------------------------------------------------
RiskInit == riskManager = NewRiskManager

AddRule(rule) ==
    /\ Len(riskManager.rules) < MaxRules
    /\ riskManager' = RiskAddRule(riskManager, rule)
    /\ lastCall' = [op |-> "add_rule", ok |-> TRUE]
    /\ UNCHANGED <<pfVars, busVars, pmVars, ctxVars, btVars, hookVars, cacheVars>>

CheckOrder(order, prices) ==
    \E r \in {RiskCheckOrder(riskManager, order, portfolio, prices)} :
       /\ riskManager' = r.rm
       /\ portfolio' = r.pf
       /\ lastCall' = [op |-> "check_order", ok |-> ~r.raised,
                       valid |-> ValidOrder(order), passed |-> r.passed,
                       violations |-> r.violations, calls |-> r.calls]
       /\ UNCHANGED <<realized, opCount, busVars, pmVars, ctxVars, btVars, hookVars, cacheVars>>

CheckPosition(symbol, price) ==
    /\ symbol \in DOMAIN portfolio.positions
    /\ \E r \in {RiskCheckPosition(riskManager, symbol, portfolio.positions[symbol], price)} :
          /\ riskManager' = r.rm
          /\ portfolio' = [portfolio EXCEPT !.positions[symbol] = r.position]
          /\ lastCall' = [op |-> "check_position", ok |-> TRUE,
                          valid |-> TRUE, passed |-> r.passed]
    /\ UNCHANGED <<realized, opCount, busVars, pmVars, ctxVars, btVars, hookVars, cacheVars>>

\* the trades that prepare the portfolio handed to the checks
RiskTrade ==
    /\ opCount < MaxRiskTrades
    /\ \/ \E s \in Symbols, q \in 1..MaxQty, p \in 1..MaxPrice : Buy(s, q, p, 1)
       \/ \E s \in Symbols, q \in 1..MaxQty, p \in 1..MaxPrice : Sell(s, q, p, 1)
       \/ SettleDay(1)

\* MaxPositionRatioRule.check_order called on its own
RatioCheckOrder(rule, order, prices) ==
    \E r \in {MaxPositionRatioCheckOrder(rule, order, portfolio, prices)} :
       /\ lastCall' = [op |-> "ratio_check_order", ok |-> ~r.raised, rule |-> rule,
                       order |-> order, prices |-> prices,
                       violations |-> r.violations]
       /\ UNCHANGED <<pfVars, busVars, pmVars, riskVars, ctxVars, btVars, hookVars, cacheVars>>

RatioRuleNext ==
    \/ RiskTrade
    \/ \E rule \in RatioRules, order \in Orders, prices \in PriceMaps :
          RatioCheckOrder(rule, order, prices)

RiskNext ==
    \/ RiskTrade
    \/ \E rule \in BuiltinRules : AddRule(rule)
    \/ \E order \in Orders, prices \in PriceMaps : CheckOrder(order, prices)
    \/ \E s \in Symbols, p \in 1..(MaxPrice + 1) : CheckPosition(s, RatInt(p))

\* ------------------------------------------------------------------------
\* core/context.py
\* ------------------------------------------------------------------------
MaxDepth == 3           \* nesting depth of with-blocks explored in one flow

ContextObjects == {"c1", "c2"}
None == "None"
Flows == {"main", "forked"}

\* the module-level ContextVar (default None) has one value per flow that
\* runs, at first the main flow alone; each Context object carries its
\* _tokens list
NewContextState ==
    [ current |-> [f \in {"main"} |-> None],
      tokens  |-> [c \in ContextObjects |-> << >>] ]

\* get_current_context
GetCurrentContext(cs, f) == cs.current[f]

\* set_current_context
SetCurrentContext(cs, f, value) == [cs EXCEPT !.current[f] = value]

\* the flows that run
LiveFlows(cs) == DOMAIN cs.current

\* contextvars.copy_context: the new flow starts with a copy of the
\* variable's value in the flow that makes it
CopyContext(cs, parent, child) ==
    [cs EXCEPT !.current = [f \in LiveFlows(cs) \cup {child} |->
                               IF f = child THEN cs.current[parent] ELSE cs.current[f]]]

\* Context.__enter__: ContextVar.set returns a token holding the old value
ContextEnter(cs, f, c) ==
    LET token == [old |-> cs.current[f], flow |-> f]
    IN [cs EXCEPT !.current[f] = c,
                  !.tokens[c] = Append(@, token)]

\* a slip: the variable is cleared instead of reset to the token
VarReset_Clear(cs, f, token) ==
    IF token.flow # f THEN [raised |-> TRUE, cs |-> cs]
    ELSE [raised |-> FALSE, cs |-> [cs EXCEPT !.current[f] = None]]

\* ContextVar.reset (context.py:82): [raised, cs]; a token made in another
\* flow raises ValueError
VarReset(cs, f, token) ==
    IF token.flow # f THEN [raised |-> TRUE, cs |-> cs]
    ELSE [raised |-> FALSE, cs |-> [cs EXCEPT !.current[f] = token.old]]

\* Context.__exit__: [raised, cs]; the exception state is ignored, an empty
\* _tokens raises IndexError
ContextExit(cs, f, c, exc_type) ==
    IF cs.tokens[c] = << >> THEN [raised |-> TRUE, cs |-> cs]
    ELSE LET token == cs.tokens[c][Len(cs.tokens[c])]
             popped == [cs EXCEPT !.tokens[c] = SubSeq(@, 1, Len(@) - 1)]
         IN VarReset(popped, f, token)

\* ------------------------------------------------------------------------
\* Context scopes as actions: each flow nests with-blocks; scopes[f] holds,
\* for every open block, its Context object and the value get_current_context
\* returned right before the block was entered; raising[f] holds while an
\* exception is unwinding the flow's blocks
\* ------------------------------------------------------------------------
ContextInit ==
    /\ ctxState = NewContextState
    /\ scopes = [f \in Flows |-> << >>]
    /\ raising = [f \in Flows |-> FALSE]

\* with c: ... is entered
EnterScope(f, c) ==
    /\ ~raising[f]
    /\ Len(scopes[f]) < MaxDepth
    /\ ctxState' = ContextEnter(ctxState, f, c)
    /\ scopes' = [scopes EXCEPT ![f] = Append(@, [ctx |-> c,
                                                  before |-> GetCurrentContext(ctxState, f)])]
    /\ lastCall' = [op |-> "enter", ok |-> TRUE, flow |-> f]
    /\ UNCHANGED <<raising, pfVars, busVars, pmVars, riskVars, btVars, hookVars, cacheVars>>

\* the innermost with-block is left, normally or by the exception in flight
ExitScope(f) ==
    /\ scopes[f] # << >>
    /\ LET top == scopes[f][Len(scopes[f])]
           r == ContextExit(ctxState, f, top.ctx, raising[f])
       IN /\ ctxState' = r.cs
          /\ raising' = [raising EXCEPT ![f] = @ \/ r.raised]
          /\ lastCall' = [op |-> "exit", ok |-> ~r.raised, flow |-> f,
                          exceptional |-> raising[f], before |-> top.before]
    /\ scopes' = [scopes EXCEPT ![f] = SubSeq(@, 1, Len(@) - 1)]
    /\ UNCHANGED <<pfVars, busVars, pmVars, riskVars, btVars, hookVars, cacheVars>>

\* the body of the innermost with-block raises
RaiseInScope(f) ==
    /\ ~raising[f]
    /\ scopes[f] # << >>
    /\ raising' = [raising EXCEPT ![f] = TRUE]
    /\ lastCall' = [op |-> "raise", ok |-> FALSE]
    /\ UNCHANGED <<ctxState, scopes, pfVars, busVars, pmVars, riskVars, btVars, hookVars, cacheVars>>

\* an except clause around the blocks left so far catches the exception
CatchException(f) ==
    /\ raising[f]
    /\ raising' = [raising EXCEPT ![f] = FALSE]
    /\ lastCall' = [op |-> "catch", ok |-> TRUE]
    /\ UNCHANGED <<ctxState, scopes, pfVars, busVars, pmVars, riskVars, btVars, hookVars, cacheVars>>

\* set_current_context(value) is called by the running code
SetCurrent(f, value) ==
    /\ ~raising[f]
    /\ ctxState' = SetCurrentContext(ctxState, f, value)
    /\ lastCall' = [op |-> "set_current", ok |-> TRUE, flow |-> f]
    /\ UNCHANGED <<scopes, raising, pfVars, busVars, pmVars, riskVars, btVars, hookVars, cacheVars>>

ContextNext ==
    \/ \E f \in LiveFlows(ctxState), c \in ContextObjects : EnterScope(f, c)
    \/ \E f \in LiveFlows(ctxState) : ExitScope(f)
    \/ \E f \in LiveFlows(ctxState) : RaiseInScope(f)
    \/ \E f \in LiveFlows(ctxState) : CatchException(f)
    \/ \E f \in LiveFlows(ctxState), v \in ContextObjects \cup {None} : SetCurrent(f, v)

\* a running flow forks a flow that does not run yet (copy_context().run)
Fork(parent, child) ==
    /\ child \notin LiveFlows(ctxState)
    /\ ~raising[parent]
    /\ ctxState' = CopyContext(ctxState, parent, child)
    /\ lastCall' = [op |-> "fork", ok |-> TRUE, flow |-> child, parent |-> parent]
    /\ UNCHANGED <<scopes, raising, pfVars, busVars, pmVars, riskVars, btVars, hookVars, cacheVars>>

\* with-blocks open in all flows together
OpenScopes == Len(scopes["main"]) + Len(scopes["forked"])

\* several flows interleave their with-blocks and their set_current_context
FlowsNext ==
    \/ \E p \in LiveFlows(ctxState), c \in Flows : Fork(p, c)
    \/ \E f \in LiveFlows(ctxState), c \in ContextObjects :
          OpenScopes < MaxDepth /\ EnterScope(f, c)
    \/ \E f \in LiveFlows(ctxState) : ExitScope(f)
    \/ \E f \in LiveFlows(ctxState), v \in ContextObjects \cup {None} : SetCurrent(f, v)

\* ------------------------------------------------------------------------
\* plugins/hookspecs.py
\* ------------------------------------------------------------------------
MaxImpls == 3           \* implementations registered on one HookCaller

\* priorities given to @hookimpl (the default is 0)
HookPriorities == {0, 1, 2}

\* what an implementation function does when called
HookImplKinds == {"returns", "returns_none"}

\* an implementation function: id tells the functions apart and stands for
\* the value the function returns
HookImpl(id, kind, priority) == [id |-> id, kind |-> kind, priority |-> priority]

\* values a call can return: None, the value of one implementation, a list
NoneResult == [kind |-> "none", value |-> 0]
ValueResult(v) == [kind |-> "value", value |-> v]
ListResult(items) == [kind |-> "list", items |-> items]

\* impl.func(*args, **kwargs)
ImplResult(impl) ==
    IF impl.func.kind = "returns_none" THEN NoneResult ELSE ValueResult(impl.func.id)

\* HookCaller.__init__
NewHookCaller(first_result, optional) ==
    [first_result |-> first_result, optional |-> optional, implementations |-> << >>]

\* a slip: the new implementation is appended and the list is not sorted
HookCallerRegister_NoSort(hc, func) ==
    [hc EXCEPT !.implementations = @ \o <<[func |-> func, priority |-> func.priority]>>]

\* HookCaller.register: append, then sort by priority, descending and stable
HookCallerRegister(hc, func) ==
    [hc EXCEPT !.implementations =
        SortReverse(@ \o <<[func |-> func, priority |-> func.priority]>>)]

\* the loop of first_result mode from the i-th implementation: the value
\* returned and the functions called
RECURSIVE FirstResultFrom(_, _)
FirstResultFrom(impls, i) ==
    IF i > Len(impls) THEN [result |-> NoneResult, calls |-> << >>]
    ELSE With(ImplResult(impls[i]),
              LAMBDA result :
                IF result # NoneResult
                THEN [result |-> result, calls |-> <<impls[i].func.id>>]
                ELSE With(FirstResultFrom(impls, i + 1),
                          LAMBDA rest :
                            [result |-> rest.result,
                             calls |-> <<impls[i].func.id>> \o rest.calls]))

\* HookCaller.call: [ok, result, calls]; ok = FALSE stands for the LookupError
HookCallerCall(hc) ==
    LET impls == hc.implementations
    IN IF impls = << >>
       THEN IF hc.optional
            THEN [ok |-> TRUE,
                  result |-> IF hc.first_result THEN NoneResult ELSE ListResult(<< >>),
                  calls |-> << >>]
            ELSE [ok |-> FALSE, result |-> NoneResult, calls |-> << >>]
       ELSE IF hc.first_result
       THEN With(FirstResultFrom(impls, 1),
                 LAMBDA r : [ok |-> TRUE, result |-> r.result, calls |-> r.calls])
       ELSE [ok |-> TRUE,
             result |-> ListResult([i \in 1..Len(impls) |-> ImplResult(impls[i])]),
             calls |-> [i \in 1..Len(impls) |-> impls[i].func.id]]

\* ------------------------------------------------------------------------
\* HookCaller calls as actions: hookLog holds the functions the most recent
\* call invoked, in order
\* ------------------------------------------------------------------------
HookCallerIdle ==
    /\ hookCaller = NewHookCaller(FALSE, FALSE)
    /\ hookLog = << >>

HookCallerInit ==
    /\ hookCaller \in {NewHookCaller(f, o) : f \in BOOLEAN, o \in BOOLEAN}
    /\ hookLog = << >>

HookRegister(kind, priority) ==
    /\ Len(hookCaller.implementations) < MaxImpls
    /\ hookCaller' = HookCallerRegister(hookCaller,
                        HookImpl(Len(hookCaller.implementations) + 1, kind, priority))
    /\ hookLog' = << >>
    /\ lastCall' = [op |-> "hook_register", ok |-> TRUE]
    /\ UNCHANGED <<pfVars, busVars, pmVars, riskVars, ctxVars, btVars, cacheVars>>

HookCall ==
    \E r \in {HookCallerCall(hookCaller)} :
       /\ hookLog' = r.calls
       /\ lastCall' = [op |-> "hook_call", ok |-> r.ok, result |-> r.result]
       /\ UNCHANGED hookCaller
       /\ UNCHANGED <<pfVars, busVars, pmVars, riskVars, ctxVars, btVars, cacheVars>>

HookCallerNext ==
    \/ \E k \in HookImplKinds, p \in HookPriorities : HookRegister(k, p)
    \/ HookCall

\* ------------------------------------------------------------------------
\* core/cache.py
\* ------------------------------------------------------------------------
MaxCacheCalls == 4      \* calls begun on the cache in one behaviour
MaxTime == 2            \* largest value of time.time() explored
NumKeys == 1            \* keys the calls are made with

Threads == {"t1", "t2"}
NoThread == "nobody"
Keys == 1..NumKeys
CacheValues == {1, 2}

\* ttl arguments: None, or a number of seconds
NoTtl == [none |-> TRUE, secs |-> 0]
Ttl(secs) == [none |-> FALSE, secs |-> secs]
Ttls == {NoTtl, Ttl(0), Ttl(1)}

\* expires_at of an entry: None, or a time
NoExpiry == [none |-> TRUE, at |-> 0]

\* what _data.get(key) gives: the tuple (value, expires_at), or None
NoEntry == [present |-> FALSE, value |-> 0, expires_at |-> NoExpiry]
Entry(value, expires_at) == [present |-> TRUE, value |-> value, expires_at |-> expires_at]

\* MemoryCache.__init__: an empty dict and a free lock
NewMemoryCache == [data |-> [k \in Keys |-> NoEntry], lock |-> NoThread]

\* MemoryCache._expires_at
ExpiresAt(ttl, now) ==
    IF ttl.none THEN NoExpiry ELSE [none |-> FALSE, at |-> now + ttl.secs]

\* MemoryCache._is_expired
IsExpired(expires_at, now) == ~expires_at.none /\ now >= expires_at.at

\* self._data.pop(key, None)
DataPop(data, key) == [data EXCEPT ![key] = NoEntry]

\* a slip: the lock is not taken
CanAcquire_Unlocked(c, t) == TRUE

\* with self._lock: the RLock is free or held by the thread itself
CanAcquire(c, t) == c.lock \in {NoThread, t}

\* MemoryCache.get, lines 60-64, for the item read from the dict: [pop, ret]
GetResult(item, now) ==
    IF IsExpired(item.expires_at, now)
    THEN [pop |-> TRUE, ret |-> NoneResult]
    ELSE [pop |-> FALSE, ret |-> ValueResult(item.value)]

\* MemoryCache.set, lines 69-72, under the lock
SetData(data, key, value, ttl, expires_at) ==
    IF ~ttl.none /\ ttl.secs <= 0
    THEN DataPop(data, key)
    ELSE [data EXCEPT ![key] = Entry(value, expires_at)]

\* a thread that is in no call
IdleThread ==
    [pc |-> "idle", outer |-> "none", op |-> "none", key |-> 1, value |-> 0,
     ttl |-> NoTtl, expires_at |-> NoExpiry, item |-> NoEntry, ret |-> NoneResult,
     fresh |-> NoEntry]

\* what has happened on the cache so far: calls begun, the values set was
\* called with per key, the entry of the last completed set per key while no
\* write to the key took effect after it (quiet), the thread whose write to
\* the key took effect last, and per key the factory invocations of
\* get_or_set, the values it returned and whether two of its calls were
\* ever under way together
NoHistory ==
    [calls |-> 0,
     stored |-> [k \in Keys |-> {}],
     quiet |-> [k \in Keys |-> NoEntry],
     writer |-> [k \in Keys |-> NoThread],
     factory_calls |-> [k \in Keys |-> 0],
     returned |-> [k \in Keys |-> {}],
     overlapped |-> [k \in Keys |-> FALSE]]

\* the history after thread t's write to the keys took effect
AfterWrite(hist, t, keys) ==
    [hist EXCEPT !.quiet = [k \in Keys |-> IF k \in keys THEN NoEntry ELSE @[k]],
                 !.writer = [k \in Keys |-> IF k \in keys THEN t ELSE @[k]]]

\* the threads after a write to the keys took effect: a get of one of the
\* keys that is under way no longer follows an undisturbed set
Disturbed(ths, keys) ==
    [u \in Threads |-> IF ths[u].op = "get" /\ ths[u].key \in keys
                       THEN [ths[u] EXCEPT !.fresh = NoEntry]
                       ELSE ths[u]]

CacheIdle ==
    /\ cache = NewMemoryCache
    /\ threads = [t \in Threads |-> IdleThread]
    /\ clock = 0
    /\ cacheHist = NoHistory

\* a step inside a call
CacheStep == [op |-> "cache_step", ok |-> TRUE]

\* ------------------------------------------------------------------------
\* MemoryCache calls as actions: a thread begins a call, takes the lock,
\* runs the body statement by statement and returns releasing the lock
\* ------------------------------------------------------------------------
\* get(key) is called
CallGet(t, key) ==
    /\ threads[t].pc = "idle"
    /\ cacheHist.calls < MaxCacheCalls
    /\ threads' = [threads EXCEPT ![t] =
                      [IdleThread EXCEPT !.pc = "lock", !.op = "get", !.key = key,
                                         !.fresh = cacheHist.quiet[key]]]
    /\ cacheHist' = [cacheHist EXCEPT !.calls = @ + 1]
    /\ lastCall' = CacheStep
    /\ UNCHANGED <<cache, clock>>
    /\ UNCHANGED <<pfVars, busVars, pmVars, riskVars, ctxVars, btVars, hookVars>>

\* set(key, value, ttl) is called: expires_at is computed before the lock is
\* taken (line 67)
CallSet(t, key, value, ttl) ==
    /\ threads[t].pc = "idle"
    /\ cacheHist.calls < MaxCacheCalls
    /\ threads' = [threads EXCEPT ![t] =
                      [IdleThread EXCEPT !.pc = "lock", !.op = "set", !.key = key,
                                         !.value = value, !.ttl = ttl,
                                         !.expires_at = ExpiresAt(ttl, clock)]]
    /\ cacheHist' = [cacheHist EXCEPT !.calls = @ + 1,
                                      !.stored[key] = @ \cup {value}]
    /\ lastCall' = CacheStep
    /\ UNCHANGED <<cache, clock>>
    /\ UNCHANGED <<pfVars, busVars, pmVars, riskVars, ctxVars, btVars, hookVars>>

\* delete(key) is called
CallDelete(t, key) ==
    /\ threads[t].pc = "idle"
    /\ cacheHist.calls < MaxCacheCalls
    /\ threads' = [threads EXCEPT ![t] =
                      [IdleThread EXCEPT !.pc = "lock", !.op = "delete", !.key = key]]
    /\ cacheHist' = [cacheHist EXCEPT !.calls = @ + 1]
    /\ lastCall' = CacheStep
    /\ UNCHANGED <<cache, clock>>
    /\ UNCHANGED <<pfVars, busVars, pmVars, riskVars, ctxVars, btVars, hookVars>>

\* clear() is called
CallClear(t) ==
    /\ threads[t].pc = "idle"
    /\ cacheHist.calls < MaxCacheCalls
    /\ threads' = [threads EXCEPT ![t] =
                      [IdleThread EXCEPT !.pc = "lock", !.op = "clear"]]
    /\ cacheHist' = [cacheHist EXCEPT !.calls = @ + 1]
    /\ lastCall' = CacheStep
    /\ UNCHANGED <<cache, clock>>
    /\ UNCHANGED <<pfVars, busVars, pmVars, riskVars, ctxVars, btVars, hookVars>>

\* with self._lock: is entered
Acquire(t) ==
    /\ threads[t].pc = "lock"
    /\ CanAcquire(cache, t)
    /\ cache' = [cache EXCEPT !.lock = t]
    /\ threads' = [threads EXCEPT ![t].pc = "body"]
    /\ lastCall' = CacheStep
    /\ UNCHANGED <<clock, cacheHist>>
    /\ UNCHANGED <<pfVars, busVars, pmVars, riskVars, ctxVars, btVars, hookVars>>

\* get, lines 56-58: the item is read; None is returned when there is none
GetRead(t) ==
    /\ threads[t].pc = "body" /\ threads[t].op = "get"
    /\ \E item \in {cache.data[threads[t].key]} :
          threads' = [threads EXCEPT ![t].item = item,
                                     ![t].ret = NoneResult,
                                     ![t].pc = IF item.present THEN "check" ELSE "unlock"]
    /\ lastCall' = CacheStep
    /\ UNCHANGED <<cache, clock, cacheHist>>
    /\ UNCHANGED <<pfVars, busVars, pmVars, riskVars, ctxVars, btVars, hookVars>>

\* get, lines 60-64: an expired item is popped, another one is returned
GetCheck(t) ==
    /\ threads[t].pc = "check"
    /\ \E r \in {GetResult(threads[t].item, clock)} :
          /\ cache' = IF r.pop
                      THEN [cache EXCEPT !.data = DataPop(@, threads[t].key)]
                      ELSE cache
          /\ threads' = [threads EXCEPT ![t].ret = r.ret, ![t].pc = "unlock"]
    /\ lastCall' = CacheStep
    /\ UNCHANGED <<clock, cacheHist>>
    /\ UNCHANGED <<pfVars, busVars, pmVars, riskVars, ctxVars, btVars, hookVars>>

\* set, lines 69-72
SetBody(t) ==
    /\ threads[t].pc = "body" /\ threads[t].op = "set"
    /\ cache' = [cache EXCEPT !.data = SetData(@, threads[t].key, threads[t].value,
                                               threads[t].ttl, threads[t].expires_at)]
    /\ threads' = [Disturbed(threads, {threads[t].key}) EXCEPT ![t].pc = "unlock"]
    /\ cacheHist' = AfterWrite(cacheHist, t, {threads[t].key})
    /\ lastCall' = CacheStep
    /\ UNCHANGED clock
    /\ UNCHANGED <<pfVars, busVars, pmVars, riskVars, ctxVars, btVars, hookVars>>

\* delete, line 76
DeleteBody(t) ==
    /\ threads[t].pc = "body" /\ threads[t].op = "delete"
    /\ cache' = [cache EXCEPT !.data = DataPop(@, threads[t].key)]
    /\ threads' = [Disturbed(threads, {threads[t].key}) EXCEPT ![t].pc = "unlock"]
    /\ cacheHist' = AfterWrite(cacheHist, t, {threads[t].key})
    /\ lastCall' = CacheStep
    /\ UNCHANGED clock
    /\ UNCHANGED <<pfVars, busVars, pmVars, riskVars, ctxVars, btVars, hookVars>>

\* clear, line 80
ClearBody(t) ==
    /\ threads[t].pc = "body" /\ threads[t].op = "clear"
    /\ cache' = [cache EXCEPT !.data = [k \in Keys |-> NoEntry]]
    /\ threads' = [Disturbed(threads, Keys) EXCEPT ![t].pc = "unlock"]
    /\ cacheHist' = AfterWrite(cacheHist, t, Keys)
    /\ lastCall' = CacheStep
    /\ UNCHANGED clock
    /\ UNCHANGED <<pfVars, busVars, pmVars, riskVars, ctxVars, btVars, hookVars>>

\* the entry a returning set leaves for the gets that follow it: its own,
\* when it kept one and no other write to the key took effect after it
QuietAfter(hist, th, t) ==
    IF th.op = "set" /\ (th.ttl.none \/ th.ttl.secs > 0) /\ hist.writer[th.key] = t
    THEN [hist EXCEPT !.quiet[th.key] = Entry(th.value, th.expires_at)]
    ELSE hist

\* the with block is left and the call returns
Release(t) ==
    /\ threads[t].pc = "unlock"
    /\ threads[t].outer = "none"
    /\ cache' = [cache EXCEPT !.lock = IF @ = t THEN NoThread ELSE @]
    /\ threads' = [threads EXCEPT ![t] = IdleThread]
    /\ cacheHist' = QuietAfter(cacheHist, threads[t], t)
    /\ lastCall' = [op |-> threads[t].op, ok |-> TRUE, thread |-> t,
                    key |-> threads[t].key, ret |-> threads[t].ret,
                    fresh |-> threads[t].fresh]
    /\ UNCHANGED clock
    /\ UNCHANGED <<pfVars, busVars, pmVars, riskVars, ctxVars, btVars, hookVars>>

\* time passes
Tick ==
    /\ clock < MaxTime
    /\ clock' = clock + 1
    /\ lastCall' = CacheStep
    /\ UNCHANGED <<cache, threads, cacheHist>>
    /\ UNCHANGED <<pfVars, busVars, pmVars, riskVars, ctxVars, btVars, hookVars>>

CacheNext ==
    \/ \E t \in Threads, k \in Keys : CallGet(t, k)
    \/ \E t \in Threads, k \in Keys, v \in CacheValues, ttl \in Ttls : CallSet(t, k, v, ttl)
    \/ \E t \in Threads, k \in Keys : CallDelete(t, k)
    \/ \E t \in Threads : CallClear(t)
    \/ \E t \in Threads : Acquire(t)
    \/ \E t \in Threads : GetRead(t)
    \/ \E t \in Threads : GetCheck(t)
    \/ \E t \in Threads : SetBody(t)
    \/ \E t \in Threads : DeleteBody(t)
    \/ \E t \in Threads : ClearBody(t)
    \/ \E t \in Threads : Release(t)
    \/ Tick

\* ------------------------------------------------------------------------
\* CacheManager.get_or_set on a MemoryCache backend, as actions: the call
\* makes backend.get, then either returns what it got or calls the factory
\* and makes backend.set
\* ------------------------------------------------------------------------
\* ttl arguments of get_or_set that keep the entry
KeepingTtls == {NoTtl, Ttl(1)}

\* a slip: what was got is never taken for a hit
IsHit_Never(cached) == FALSE

\* get_or_set, line 205: cached is not None
IsHit(cached) == cached # NoneResult

\* get_or_set(key, factory, ttl) is called and calls backend.get(key)
CallGetOrSet(t, key, ttl) ==
    /\ threads[t].pc = "idle"
    /\ cacheHist.calls < MaxCacheCalls
    /\ threads' = [threads EXCEPT ![t] =
                      [IdleThread EXCEPT !.pc = "lock", !.outer = "get_or_set",
                                         !.op = "get", !.key = key, !.ttl = ttl]]
    /\ cacheHist' = [cacheHist EXCEPT
                        !.calls = @ + 1,
                        !.overlapped[key] =
                            @ \/ \E u \in Threads \ {t} :
                                    threads[u].pc # "idle" /\ threads[u].key = key]
    /\ lastCall' = CacheStep
    /\ UNCHANGED <<cache, clock>>
    /\ UNCHANGED <<pfVars, busVars, pmVars, riskVars, ctxVars, btVars, hookVars>>

\* backend.get returns into cached (line 204)
BackendGetReturns(t) ==
    /\ threads[t].pc = "unlock"
    /\ threads[t].outer = "get_or_set" /\ threads[t].op = "get"
    /\ cache' = [cache EXCEPT !.lock = IF @ = t THEN NoThread ELSE @]
    /\ threads' = [threads EXCEPT ![t].pc = "cached"]
    /\ lastCall' = CacheStep
    /\ UNCHANGED <<clock, cacheHist>>
    /\ UNCHANGED <<pfVars, busVars, pmVars, riskVars, ctxVars, btVars, hookVars>>

\* lines 205-206: a hit is returned
ReturnCached(t) ==
    /\ threads[t].pc = "cached"
    /\ IsHit(threads[t].ret)
    /\ threads' = [threads EXCEPT ![t] = IdleThread]
    /\ cacheHist' = [cacheHist EXCEPT !.returned[threads[t].key] =
                                          @ \cup {threads[t].ret.value}]
    /\ lastCall' = [op |-> "get_or_set", ok |-> TRUE, thread |-> t,
                    key |-> threads[t].key, ret |-> threads[t].ret, made |-> FALSE]
    /\ UNCHANGED <<cache, clock>>
    /\ UNCHANGED <<pfVars, busVars, pmVars, riskVars, ctxVars, btVars, hookVars>>

\* lines 208-209: on a miss the factory is called, it returns value, and
\* backend.set(key, value, ttl) is called
CallFactory(t, value) ==
    /\ threads[t].pc = "cached"
    /\ ~IsHit(threads[t].ret)
    /\ threads' = [threads EXCEPT ![t].op = "set", ![t].pc = "lock",
                                  ![t].value = value,
                                  ![t].expires_at = ExpiresAt(threads[t].ttl, clock)]
    /\ cacheHist' = [cacheHist EXCEPT !.factory_calls[threads[t].key] = @ + 1,
                                      !.stored[threads[t].key] = @ \cup {value}]
    /\ lastCall' = CacheStep
    /\ UNCHANGED <<cache, clock>>
    /\ UNCHANGED <<pfVars, busVars, pmVars, riskVars, ctxVars, btVars, hookVars>>

\* backend.set returns and the value of the factory is returned (line 210)
BackendSetReturns(t) ==
    /\ threads[t].pc = "unlock"
    /\ threads[t].outer = "get_or_set" /\ threads[t].op = "set"
    /\ cache' = [cache EXCEPT !.lock = IF @ = t THEN NoThread ELSE @]
    /\ threads' = [threads EXCEPT ![t] = IdleThread]
    /\ cacheHist' = [QuietAfter(cacheHist, threads[t], t) EXCEPT
                        !.returned[threads[t].key] = @ \cup {threads[t].value}]
    /\ lastCall' = [op |-> "get_or_set", ok |-> TRUE, thread |-> t,
                    key |-> threads[t].key, ret |-> ValueResult(threads[t].value),
                    made |-> TRUE]
    /\ UNCHANGED clock
    /\ UNCHANGED <<pfVars, busVars, pmVars, riskVars, ctxVars, btVars, hookVars>>

CacheManagerNext ==
    \/ \E t \in Threads, k \in Keys, ttl \in KeepingTtls : CallGetOrSet(t, k, ttl)
    \/ \E t \in Threads : Acquire(t)
    \/ \E t \in Threads : GetRead(t)
    \/ \E t \in Threads : GetCheck(t)
    \/ \E t \in Threads : BackendGetReturns(t)
    \/ \E t \in Threads : ReturnCached(t)
    \/ \E t \in Threads, v \in CacheValues : CallFactory(t, v)
    \/ \E t \in Threads : SetBody(t)
    \/ \E t \in Threads : BackendSetReturns(t)

\* ------------------------------------------------------------------------
\* contrib/backtest/simple_backtest.py
\* ------------------------------------------------------------------------
MaxBars == 2            \* bar records in the data of one run
MaxClose == 2           \* largest close price of a bar
NumBtDates == 3         \* calendar dates bars and windows are drawn from
MaxRuns == 2            \* runs explored in one behaviour

BtDates == 1..NumBtDates
Closes == 1..MaxClose

\* a raw bar record as the driver reads it: date (already a date), symbol and
\* a positive close
BarRecords == [date : BtDates, symbol : {"A"}, close : Closes]
BarData == UNION {[1..n -> BarRecords] : n \in 0..MaxBars}

\* the constructor arguments explored
EngineConfigs ==
    { [initial_cash |-> 6, trade_mode |-> m, commission_rate |-> r.c, slippage |-> r.s] :
        m \in TradeModes,
        r \in { [c |-> RatZero, s |-> RatZero], [c |-> Rat(1, 10), s |-> Rat(1, 2)] } }

\* stands for a signal that carries no quantity
NoQuantity == -99

\* raw signals a strategy returns from on_bar (dicts); a signal without a
\* price has NoPrice for it
LimitSignal(symbol, side, quantity, price) ==
    [symbol |-> symbol, side |-> side, quantity |-> quantity, price |-> price]
Signal(symbol, side, quantity) == LimitSignal(symbol, side, quantity, NoPrice)
OddSignals ==
    { Signal(NoSymbol, "BUY", 1),      \* no symbol
      Signal("A", "HOLD", 1),          \* neither BUY nor SELL
      Signal("B", "BUY", 1),           \* a symbol without a price
      Signal("A", "buy", 0),           \* lower-case side, quantity 0
      Signal("A", "BUY", NoQuantity),  \* no quantity
      Signal("A", "BUY", -1),          \* auto-sized buy
      Signal("A", "SELL", -1) }        \* sell of the whole position

\* what on_bar returns: None, or a list of signals
ReturnsNone == [is_list |-> FALSE, items |-> << >>]
Returns(list) == [is_list |-> TRUE, items |-> list]

\* what on_bar returns on its first call
FirstSignals ==
    {ReturnsNone}
    \cup { Returns(<<Signal("A", "BUY", q)>>) : q \in 1..MaxQty }
    \cup { Returns(<<Signal("A", "BUY", q), Signal("A", "SELL", q)>>) : q \in 1..MaxQty }
    \cup { Returns(<<Signal("A", "SELL", 1), Signal("A", "BUY", q)>>) : q \in 1..MaxQty }
    \cup { Returns(<<s>>) : s \in OddSignals }

\* what on_bar returns on every later call
LaterSignals ==
    {ReturnsNone, Returns(<<Signal("A", "BUY", 1)>>)}
    \cup { Returns(<<Signal("A", "SELL", q)>>) : q \in 1..MaxQty }

\* a deterministic strategy: its on_bar answers by call number
Strategies == [first : FirstSignals, later : LaterSignals]
StrategyOnBar(strategy, call) == IF call = 1 THEN strategy.first ELSE strategy.later


\* SimpleBacktestEngine.__init__
NewBacktestEngine(cfg) ==
    [ initial_cash     |-> cfg.initial_cash,
      trade_mode       |-> cfg.trade_mode,
      commission_rate  |-> cfg.commission_rate,
      slippage         |-> cfg.slippage,
      context          |-> None,
      strategy         |-> None,
      portfolio        |-> None,
      latest_prices    |-> << >>,
      trades           |-> << >>,
      net_value_series |-> << >> ]

\* a slip: the trades of the earlier run are kept
RunReset_KeepTrades(bt, strategy) ==
    [bt EXCEPT !.strategy = strategy,
               !.portfolio = NewPortfolio(bt.initial_cash, bt.trade_mode),
               !.latest_prices = << >>,
               !.net_value_series = << >>,
               !.context = "context"]

\* run, lines 90-105: the per-run state is created anew and the context bound
RunReset(bt, strategy) ==
    [bt EXCEPT !.strategy = strategy,
               !.portfolio = NewPortfolio(bt.initial_cash, bt.trade_mode),
               !.latest_prices = << >>,
               !.trades = << >>,
               !.net_value_series = << >>,
               !.context = "context"]

\* a slip: every bar is kept, whatever its date
InWindow_All(bar_date, start_date, end_date) == TRUE

\* run, line 114
InWindow(bar_date, start_date, end_date) ==
    start_date <= bar_date /\ bar_date <= end_date

\* run, lines 111-115: the bars inside the window, grouped by date
DailyBars(data, start_date, end_date) ==
    LET kept == SelectSeq(data, LAMBDA bar : InWindow(bar.date, start_date, end_date))
        dates == {kept[i].date : i \in 1..Len(kept)}
    IN [d \in dates |-> SelectSeq(kept, LAMBDA bar : bar.date = d)]

\* sorted(daily_bars.keys())
RECURSIVE Sorted(_)
Sorted(S) ==
    IF S = {} THEN << >>
    ELSE LET m == CHOOSE x \in S : \A y \in S : x <= y
         IN <<m>> \o Sorted(S \ {m})

\* run, lines 122-125
RECURSIVE UpdateLatestPrices(_, _, _)
UpdateLatestPrices(prices, day_bars, i) ==
    IF i > Len(day_bars) THEN prices
    ELSE LET bar == day_bars[i]
         IN UpdateLatestPrices(
                IF bar.symbol # NoSymbol
                THEN DictPut(prices, bar.symbol, RatInt(bar.close))
                ELSE prices,
                day_bars, i + 1)

\* str.upper on the sides used
UpperSide(side) ==
    CASE side = "buy" -> "BUY"
      [] side = "sell" -> "SELL"
      [] OTHER -> side

\* _normalize_orders: int(signal.get("quantity", 1) or 1); the signals carry
\* no order_type, which becomes LIMIT when a price is present (lines 414-415)
NormalizeOrders(raw_signals) ==
    IF ~raw_signals.is_list THEN << >>
    ELSE [i \in 1..Len(raw_signals.items) |->
            LET signal == raw_signals.items[i]
            IN [symbol   |-> signal.symbol,
                side     |-> UpperSide(signal.side),
                quantity |-> IF signal.quantity = NoQuantity \/ signal.quantity = 0
                             THEN 1 ELSE signal.quantity,
                order_type |-> IF signal.price # NoPrice THEN "LIMIT" ELSE "MARKET",
                price    |-> signal.price]]

\* int(x) of a float: truncation towards zero
RatTrunc(x) == IF x.n >= 0 THEN x.n \div x.d ELSE -((-x.n) \div x.d)

RatDiv(x, y) == Rat(x.n * y.d, x.d * y.n)

NoTrade == [matched |-> FALSE]

\* _match_order_v2
MatchOrderV2(bt, order, bar_date) ==
    LET close_price == DictGet(bt.latest_prices, order.symbol, RatZero)
        quantity ==
          IF order.quantity <= 0
          THEN IF order.side = "BUY"
               THEN RatTrunc(RatDiv(RatMul(bt.portfolio.cash, Rat(3, 10)), close_price))
               ELSE IF order.symbol \in DOMAIN bt.portfolio.positions
                    THEN bt.portfolio.positions[order.symbol].quantity ELSE 0
          ELSE order.quantity
        trade_price ==
          IF order.side = "BUY"
          THEN RatMul(close_price, RatAdd(RatInt(1), bt.slippage))
          ELSE RatMul(close_price, RatSub(RatInt(1), bt.slippage))
    IN IF order.symbol = NoSymbol THEN NoTrade
       ELSE IF order.side \notin {"BUY", "SELL"} THEN NoTrade
       ELSE IF RatLe(close_price, RatZero) THEN NoTrade
       ELSE IF quantity <= 0 THEN NoTrade
       ELSE [ matched  |-> TRUE,
              date     |-> bar_date,
              symbol   |-> order.symbol,
              side     |-> order.side,
              quantity |-> quantity,
              price    |-> trade_price,
              amount   |-> RatMul(trade_price, RatInt(quantity)) ]

\* a slip: the whole amount is charged
CalculateCommission_WholeAmount(bt, amount) == amount

\* _calculate_commission
CalculateCommission(bt, amount) == RatMul(amount, bt.commission_rate)

\* a recorded trade (lines 174-176, 190-192)
Recorded(trade, commission, pnl) ==
    [ date |-> trade.date, symbol |-> trade.symbol, side |-> trade.side,
      quantity |-> trade.quantity, price |-> trade.price, amount |-> trade.amount,
      commission |-> commission, pnl |-> pnl ]

\* the replay as it proceeds: the engine, the calls it has made so far, and
\* whether an exception has left the run
RunState(bt) == [bt |-> bt, log |-> << >>, raised |-> FALSE]

\* an order of the loop, with the quantity _match_order_v2 gave it (0 when
\* it gave no trade), the quantity it traded (0 when it was skipped), and
\* the cash, the latest price, the holding and the sellable quantity of its
\* symbol before it, the cash and the holding after it, and the price it
\* traded at (0 when it was skipped)
OrderEvent(bt, order, idx, bar_date, matched, filled, after, price) ==
    [ kind |-> "order", date |-> bar_date, idx |-> idx,
      order_type |-> order.order_type, limit |-> order.price, price |-> price,
      cash_after |-> after.cash,
      held_after |-> IF order.symbol \in DOMAIN after.positions
                     THEN after.positions[order.symbol].quantity ELSE 0,
      symbol |-> order.symbol, side |-> order.side, quantity |-> order.quantity,
      matched |-> matched, traded |-> filled > 0, filled |-> filled,
      cash |-> bt.portfolio.cash,
      close |-> DictGet(bt.latest_prices, order.symbol, RatZero),
      held |-> IF order.symbol \in DOMAIN bt.portfolio.positions
               THEN bt.portfolio.positions[order.symbol].quantity ELSE 0,
      available |-> GetAvailableQuantity(bt.portfolio, order.symbol, bar_date),
      priced |-> RatLt(RatZero, DictGet(bt.latest_prices, order.symbol, RatZero)) ]

CallEvent(kind, bar_date, idx) ==
    [ kind |-> kind, date |-> bar_date, idx |-> idx,
      cash_after |-> RatZero, held_after |-> 0,
      order_type |-> "", limit |-> NoPrice, price |-> RatZero,
      symbol |-> NoSymbol, side |-> "", quantity |-> 0,
      matched |-> 0, traded |-> FALSE, filled |-> 0,
      cash |-> RatZero, close |-> RatZero,
      held |-> 0, available |-> 0, priced |-> FALSE ]

\* a slip: the commission is left out of the comparison
CannotAfford_AmountOnly(cash, amount, commission) == RatLt(cash, amount)

\* _process_bar, line 164: a BUY is skipped when amount + commission > cash
CannotAfford(cash, amount, commission) == RatLt(cash, RatAdd(amount, commission))

\* _process_bar, lines 155-192: one order of the loop
ProcessOrder(st, order, idx, bar_date) ==
    LET bt == st.bt
        Skipped(matched) ==
          [st EXCEPT !.log = Append(@, OrderEvent(bt, order, idx, bar_date, matched, 0,
                                                  bt.portfolio, RatZero))]
        Charged(r, commission) == [r.pf EXCEPT !.cash = RatSub(@, commission)]
        Bought(trade, commission, r) ==
          IF ~r.ok THEN [Skipped(trade.quantity) EXCEPT !.raised = TRUE]
          ELSE [st EXCEPT
                  !.bt.portfolio = Charged(r, commission),
                  !.bt.trades = Append(@, Recorded(trade, commission, RatZero)),
                  !.log = Append(@, OrderEvent(bt, order, idx, bar_date,
                                               trade.quantity, trade.quantity,
                                               Charged(r, commission), trade.price))]
        Sold(trade, commission, r) ==
          IF ~r.ok THEN Skipped(trade.quantity)
          ELSE [st EXCEPT
                  !.bt.portfolio = Charged(r, commission),
                  !.bt.trades = Append(@, Recorded(trade, commission,
                                                   RatSub(r.ret, commission))),
                  !.log = Append(@, OrderEvent(bt, order, idx, bar_date,
                                               trade.quantity, trade.quantity,
                                               Charged(r, commission), trade.price))]
        Matched(trade, commission) ==
          IF trade.side = "BUY"
          THEN IF CannotAfford(bt.portfolio.cash, trade.amount, commission)
               THEN Skipped(trade.quantity)
               ELSE With(PortfolioBuy(bt.portfolio, trade.symbol, trade.quantity,
                                      trade.price, bar_date),
                         LAMBDA r : Bought(trade, commission, r))
          ELSE With(PortfolioSell(bt.portfolio, trade.symbol, trade.quantity,
                                  trade.price, bar_date),
                    LAMBDA r : Sold(trade, commission, r))
    IN With(MatchOrderV2(bt, order, bar_date),
            LAMBDA trade :
              IF ~trade.matched THEN Skipped(0)
              ELSE With(CalculateCommission(bt, trade.amount),
                        LAMBDA commission : Matched(trade, commission)))

RECURSIVE ProcessOrders(_, _, _, _)
ProcessOrders(st, orders, idx, bar_date) ==
    IF idx > Len(orders) \/ st.raised THEN st
    ELSE With(ProcessOrder(st, orders[idx], idx, bar_date),
              LAMBDA next : ProcessOrders(next, orders, idx + 1, bar_date))

\* a slip: the day is settled before its orders are processed
ProcessBar_SettleFirst(st, bar_date, call) ==
    LET raw_signals == StrategyOnBar(st.bt.strategy, call)
        orders == NormalizeOrders(raw_signals)
        called == [st EXCEPT !.log = Append(@, CallEvent("on_bar", bar_date, call))]
        settled == [called EXCEPT
                      !.bt.portfolio = PortfolioSettleDay(@, bar_date),
                      !.log = Append(@, CallEvent("settle_day", bar_date, 1))]
        done == ProcessOrders(settled, orders, 1, bar_date)
        value == GetTotalValue(done.bt.portfolio, done.bt.latest_prices)
    IN IF done.raised THEN done
       ELSE [done EXCEPT
               !.bt.net_value_series = Append(@, [date |-> bar_date, value |-> value])]

\* _process_bar: on_bar, the orders, settle_day, the net value point
ProcessBar(st, bar_date, call) ==
    LET raw_signals == StrategyOnBar(st.bt.strategy, call)
        orders == NormalizeOrders(raw_signals)
        called == [st EXCEPT !.log = Append(@, CallEvent("on_bar", bar_date, call))]
        Settle(done, settled) ==
          [done EXCEPT
             !.bt.portfolio = settled,
             !.bt.net_value_series =
                Append(@, [date |-> bar_date,
                           value |-> GetTotalValue(settled, done.bt.latest_prices)]),
             !.log = Append(@, CallEvent("settle_day", bar_date, 1))]
    IN With(ProcessOrders(called, orders, 1, bar_date),
            LAMBDA done :
              IF done.raised THEN done
              ELSE With(PortfolioSettleDay(done.bt.portfolio, bar_date),
                        LAMBDA settled : Settle(done, settled)))

\* run, lines 118-138: the replay loop
RECURSIVE Replay(_, _, _, _)
Replay(st, daily_bars, dates, call) ==
    IF call > Len(dates) \/ st.raised THEN st
    ELSE
      LET bar_date == dates[call]
          priced == [st EXCEPT !.bt.latest_prices =
                                  UpdateLatestPrices(@, daily_bars[bar_date], 1)]
          Settled(processed) ==
            IF processed.raised \/ processed.bt.trade_mode # "T+1" THEN processed
            ELSE [processed EXCEPT
                    !.bt.portfolio = PortfolioSettleDay(@, bar_date),
                    !.log = Append(@, CallEvent("settle_day", bar_date, 2))]
      IN With(ProcessBar(priced, bar_date, call),
              LAMBDA processed :
                With(Settled(processed),
                     LAMBDA settled : Replay(settled, daily_bars, dates, call + 1)))

RatMax(x, y) == IF RatLt(x, y) THEN y ELSE x

\* _calculate_stats, lines 350-357
RECURSIVE MaxDrawdown(_, _, _, _)
MaxDrawdown(series, i, peak, worst) ==
    IF i > Len(series) THEN worst
    ELSE LET value == series[i].value
             peak1 == RatMax(peak, value)
             drawdown == IF RatLt(RatZero, peak1)
                         THEN RatDiv(RatSub(peak1, value), peak1) ELSE RatZero
         IN MaxDrawdown(series, i + 1, peak1, RatMax(worst, drawdown))

\* _calculate_stats, lines 359-361
WinRate(trades) ==
    LET sells == SelectSeq(trades, LAMBDA t : t.side = "SELL")
        wins == SelectSeq(sells, LAMBDA t : RatLt(RatZero, t.pnl))
    IN IF Len(sells) = 0 THEN RatZero ELSE Rat(Len(wins), Len(sells))

\* _calculate_stats; annual_return and sharpe_ratio are further functions of
\* initial_cash and net_value_series alone (lines 324-348), irrational in
\* general, and are not carried
CalculateStats(bt) ==
    IF bt.net_value_series = << >>
    THEN [ initial_cash |-> RatInt(bt.initial_cash),
           final_value |-> RatInt(bt.initial_cash),
           total_return |-> RatZero,
           max_drawdown |-> RatZero,
           win_rate |-> RatZero,
           trade_count |-> 0,
           net_value_series |-> << >>,
           trades |-> << >> ]
    ELSE LET series == bt.net_value_series
             final_value == series[Len(series)].value
         IN [ initial_cash |-> RatInt(bt.initial_cash),
              final_value |-> final_value,
              total_return |-> RatDivInt(RatSub(final_value, RatInt(bt.initial_cash)),
                                         bt.initial_cash),
              max_drawdown |-> MaxDrawdown(series, 1, series[1].value, RatZero),
              win_rate |-> WinRate(bt.trades),
              trade_count |-> Len(bt.trades),
              net_value_series |-> series,
              trades |-> bt.trades ]

\* nothing is returned when an exception leaves run
NoResult == [trade_count |-> -1]

\* the dates a run replays, ascending
ReplayedDates(inputs) ==
    Sorted(DOMAIN DailyBars(inputs.data, inputs.start_date, inputs.end_date))

\* the arguments of run; of the strategies that differ only in answers the
\* run never asks for, the one that would answer None is taken
RunInputs ==
    { inputs \in [strategy : Strategies, data : BarData,
                  start_date : BtDates, end_date : BtDates] :
        /\ inputs.start_date <= inputs.end_date
        /\ Len(ReplayedDates(inputs)) < 2 => inputs.strategy.later = ReturnsNone
        /\ Len(ReplayedDates(inputs)) < 1 => inputs.strategy.first = ReturnsNone }

\* SimpleBacktestEngine.run: [bt, raised, result, log]
BacktestRun(bt, inputs) ==
    LET reset == RunReset(bt, inputs.strategy)
        daily_bars == DailyBars(inputs.data, inputs.start_date, inputs.end_date)
        RunResult(final) ==
          IF final.raised
          THEN [bt |-> final.bt, raised |-> TRUE, result |-> NoResult, log |-> final.log]
          ELSE [bt |-> [final.bt EXCEPT !.context = None], raised |-> FALSE,
                result |-> CalculateStats(final.bt), log |-> final.log]
    IN With(daily_bars,
            LAMBDA bars :
              With(Replay(RunState(reset), bars, Sorted(DOMAIN bars), 1),
                   LAMBDA final : RunResult(final)))

\* ------------------------------------------------------------------------
\* Backtest runs as actions: btRuns keeps, for every run made, its
\* arguments, what it returned and the calls it made
\* ------------------------------------------------------------------------
BacktestInit ==
    /\ \E cfg \in EngineConfigs : backtest = NewBacktestEngine(cfg)
    /\ btRuns = << >>

BacktestIdle ==
    /\ backtest = NewBacktestEngine([initial_cash |-> 6, trade_mode |-> "T+0",
                                     commission_rate |-> RatZero, slippage |-> RatZero])
    /\ btRuns = << >>

\* commission rates and slippages up to the ends of their ranges
CostConfigs ==
    { [initial_cash |-> 6, trade_mode |-> m, commission_rate |-> c, slippage |-> sl] :
        m \in TradeModes,
        c \in {RatZero, Rat(1, 10), RatInt(1)},
        sl \in {RatZero, Rat(9, 10)} }

CostsInit ==
    /\ \E cfg \in CostConfigs : backtest = NewBacktestEngine(cfg)
    /\ btRuns = << >>

RunRecord(r, inputs, reused) ==
    [inputs |-> inputs, raised |-> r.raised, result |-> r.result, log |-> r.log,
     reused |-> reused]

\* engine.run(strategy, data, start_date, end_date) on the new engine
Run(inputs) ==
    /\ \E r \in {BacktestRun(backtest, inputs)} :
          /\ backtest' = r.bt
          /\ btRuns' = Append(btRuns, RunRecord(r, inputs, FALSE))
          /\ lastCall' = [op |-> "run", ok |-> ~r.raised]
    /\ UNCHANGED <<pfVars, busVars, pmVars, riskVars, ctxVars, hookVars, cacheVars>>

\* the same arguments are run again on the engine of the earlier run
RunAgain ==
    /\ btRuns # << >>
    /\ Len(btRuns) < MaxRuns
    /\ \E inputs \in {btRuns[1].inputs} :
       \E r \in {BacktestRun(backtest, inputs)} :
          /\ backtest' = r.bt
          /\ btRuns' = Append(btRuns, RunRecord(r, inputs, TRUE))
          /\ lastCall' = [op |-> "run", ok |-> ~r.raised]
    /\ UNCHANGED <<pfVars, busVars, pmVars, riskVars, ctxVars, hookVars, cacheVars>>

\* the same arguments are run on another engine constructed alike
RunOnNewEngine ==
    /\ btRuns # << >>
    /\ Len(btRuns) < MaxRuns
    /\ \E inputs \in {btRuns[1].inputs} :
       \E cfg \in {[initial_cash |-> backtest.initial_cash,
                     trade_mode |-> backtest.trade_mode,
                     commission_rate |-> backtest.commission_rate,
                     slippage |-> backtest.slippage]} :
       \E r \in {BacktestRun(NewBacktestEngine(cfg), inputs)} :
          /\ backtest' = r.bt
          /\ btRuns' = Append(btRuns, RunRecord(r, inputs, FALSE))
          /\ lastCall' = [op |-> "run", ok |-> ~r.raised]
    /\ UNCHANGED <<pfVars, busVars, pmVars, riskVars, ctxVars, hookVars, cacheVars>>

\* the arguments of a run whose strategy answers the first bar with an order
\* that carries a limit price, a BUY or a SELL behind a BUY that opens the
\* position
LimitRunInputs ==
    { inputs \in [strategy :
                     [first : { Returns(<<LimitSignal("A", "BUY", 1, p)>>) : p \in Closes }
                              \cup { Returns(<<Signal("A", "BUY", 1),
                                               LimitSignal("A", "SELL", 1, p)>>) :
                                       p \in Closes },
                      later : {ReturnsNone}],
                  data : BarData, start_date : BtDates, end_date : BtDates] :
        inputs.start_date <= inputs.end_date }

\* one run of a strategy that gives limit prices
LimitNext == btRuns = << >> /\ \E inputs \in LimitRunInputs : Run(inputs)

\* one run on an engine of any of the costs
CostsNext == btRuns = << >> /\ \E inputs \in RunInputs : Run(inputs)

BacktestNext ==
    \/ btRuns = << >> /\ \E inputs \in RunInputs : Run(inputs)
    \/ RunAgain
    \/ RunOnNewEngine

\* ------------------------------------------------------------------------
\* Specifications
\* ------------------------------------------------------------------------
vars == <<portfolio, realized, lastCall, opCount, engine, nextReg, busLog, sinceStart,
          manager, pmLog, lastInit, setUp, riskManager, ctxState, scopes, raising,
          backtest, btRuns, hookCaller, hookLog, cache, threads, clock, cacheHist>>

PortfolioNext ==
    \/ \E s \in Symbols \cup {NoSymbol}, q \in Quantities, p \in Prices, d \in Dates :
          Buy(s, q, p, d)
    \/ \E s \in Symbols \cup {NoSymbol}, q \in Quantities, p \in Prices, d \in Dates :
          Sell(s, q, p, d)
    \/ \E d \in Dates : SettleDay(d)

PortfolioIdle ==
    /\ portfolio = NewPortfolio(0, "T+0")
    /\ realized = RatZero
    /\ opCount = 0

PortfolioSpecInit ==
    /\ PortfolioInit
    /\ opCount = 0
    /\ lastCall = NoCall
    /\ BusInit
    /\ PluginInit
    /\ RiskInit
    /\ ContextInit
    /\ HookCallerIdle
    /\ CacheIdle
    /\ BacktestIdle

BusSpecInit ==
    /\ BusInit
    /\ lastCall = NoCall
    /\ PortfolioIdle
    /\ PluginInit
    /\ RiskInit
    /\ ContextInit
    /\ HookCallerIdle
    /\ CacheIdle
    /\ BacktestIdle

SpecBus == BusSpecInit /\ [][BusNext]_vars

SpecSurface == BusSpecInit /\ [][SurfaceNext]_vars

SpecUnregister == BusSpecInit /\ [][UnregisterNext]_vars

SpecDispatch == BusSpecInit /\ [][DispatchNext]_vars

PluginSpecInit ==
    /\ PluginInit
    /\ lastCall = NoCall
    /\ PortfolioIdle
    /\ BusInit
    /\ RiskInit
    /\ ContextInit
    /\ HookCallerIdle
    /\ CacheIdle
    /\ BacktestIdle

SpecPlugins == PluginSpecInit /\ [][PluginNext]_vars

SpecLifecycle == PluginSpecInit /\ [][LifecycleNext]_vars

RiskSpecInit ==
    /\ RiskInit
    /\ \E m \in TradeModes : portfolio = NewPortfolio(6, m)
    /\ realized = RatZero
    /\ opCount = 0
    /\ lastCall = NoCall
    /\ BusInit
    /\ PluginInit
    /\ ContextInit
    /\ HookCallerIdle
    /\ CacheIdle
    /\ BacktestIdle

SpecRisk == RiskSpecInit /\ [][RiskNext]_vars

RatioRuleSpecInit ==
    /\ RiskInit
    /\ \E c \in InitialCashChoices, m \in TradeModes : portfolio = NewPortfolio(c, m)
    /\ realized = RatZero
    /\ opCount = 0
    /\ lastCall = NoCall
    /\ BusInit
    /\ PluginInit
    /\ ContextInit
    /\ HookCallerIdle
    /\ CacheIdle
    /\ BacktestIdle

SpecRatioRule == RatioRuleSpecInit /\ [][RatioRuleNext]_vars

ContextSpecInit ==
    /\ ContextInit
    /\ HookCallerIdle
    /\ CacheIdle
    /\ lastCall = NoCall
    /\ PortfolioIdle
    /\ BusInit
    /\ PluginInit
    /\ RiskInit
    /\ BacktestIdle

SpecContext == ContextSpecInit /\ [][ContextNext]_vars

SpecFlows == ContextSpecInit /\ [][FlowsNext]_vars

SpecPortfolio == PortfolioSpecInit /\ [][PortfolioNext]_vars

BacktestSpecInit ==
    /\ BacktestInit
    /\ lastCall = NoCall
    /\ PortfolioIdle
    /\ BusInit
    /\ PluginInit
    /\ RiskInit
    /\ ContextInit
    /\ HookCallerIdle
    /\ CacheIdle

SpecBacktest == BacktestSpecInit /\ [][BacktestNext]_vars

CostsSpecInit ==
    /\ CostsInit
    /\ lastCall = NoCall
    /\ PortfolioIdle
    /\ BusInit
    /\ PluginInit
    /\ RiskInit
    /\ ContextInit
    /\ HookCallerIdle
    /\ CacheIdle

SpecCosts == CostsSpecInit /\ [][CostsNext]_vars

SpecLimit == BacktestSpecInit /\ [][LimitNext]_vars

HookCallerSpecInit ==
    /\ HookCallerInit
    /\ CacheIdle
    /\ lastCall = NoCall
    /\ PortfolioIdle
    /\ BusInit
    /\ PluginInit
    /\ RiskInit
    /\ ContextInit
    /\ BacktestIdle

SpecHookCaller == HookCallerSpecInit /\ [][HookCallerNext]_vars

CacheSpecInit ==
    /\ CacheIdle
    /\ HookCallerIdle
    /\ lastCall = NoCall
    /\ PortfolioIdle
    /\ BusInit
    /\ PluginInit
    /\ RiskInit
    /\ ContextInit
    /\ BacktestIdle

SpecCache == CacheSpecInit /\ [][CacheNext]_vars

SpecCacheManager == CacheSpecInit /\ [][CacheManagerNext]_vars

\* ------------------------------------------------------------------------
\* Portfolio properties
\* ------------------------------------------------------------------------
RECURSIVE SumOver(_, _)
SumOver(f, keys) ==
    IF keys = {} THEN 0
    ELSE LET k == CHOOSE x \in keys : TRUE IN f[k] + SumOver(f, keys \ {k})

RECURSIVE RatSumOver(_, _)
RatSumOver(f, keys) ==
    IF keys = {} THEN RatZero
    ELSE LET k == CHOOSE x \in keys : TRUE IN RatAdd(f[k], RatSumOver(f, keys \ {k}))

\* sum of quantity*avgCost over the held positions
CostBasis(pf) ==
    RatSumOver([s \in DOMAIN pf.positions |->
                  RatMul(RatInt(pf.positions[s].quantity), pf.positions[s].cost)],
               DOMAIN pf.positions)

\* sum over all dates of pendingT1[d][s]
PendingTotal(pf, s) ==
    SumOver([d \in DOMAIN pf.pending_t1 |-> DictGet(pf.pending_t1[d], s, 0)],
            DOMAIN pf.pending_t1)

\* C1: after every sequence of buy, sell and settle_day calls, cash plus the
\* sum over held positions of quantity*avgCost equals initialCash plus the sum
\* of the realized PnL values returned by the sells.
C1_CashCostIdentity ==
    RatAdd(portfolio.cash, CostBasis(portfolio)) = RatAdd(portfolio.initial_cash, realized)

\* a sell has just succeeded against a position whose average cost is a
\* proper fraction, part of the position is still held, and PnL was realized
C1_Witness ==
    /\ lastCall.op = "sell" /\ lastCall.ok
    /\ realized.n # 0
    /\ \E s \in DOMAIN portfolio.positions : portfolio.positions[s].cost.d > 1

\* C2: after any sequence of buy, sell and settle_day calls, successful or
\* failing, every held position satisfies 0 <= available <= quantity.
C2_AvailableWithinQuantity ==
    \A s \in DOMAIN portfolio.positions :
        /\ 0 <= portfolio.positions[s].available
        /\ portfolio.positions[s].available <= portfolio.positions[s].quantity

\* T+1: after a failed call, a position is partly settled and partly pending
C2_Witness ==
    /\ portfolio.trade_mode = "T+1"
    /\ lastCall.op \in {"buy", "sell"} /\ ~lastCall.ok
    /\ \E s \in DOMAIN portfolio.positions :
          /\ 0 < portfolio.positions[s].available
          /\ portfolio.positions[s].available < portfolio.positions[s].quantity

\* C3: in T+1 mode a buy on date d adds its quantity to pendingT1[d] and
\* leaves available alone, a sell succeeds only for at most the settled
\* (available) quantity, and settle_day(d) removes pendingT1[d] and raises
\* each position's available by exactly what was pending for it on d, every
\* pending symbol being held, so that the total released is pendingT1[d].
C3_StepT1 ==
    portfolio.trade_mode = "T+1" =>
      /\ (lastCall'.op = "buy" /\ lastCall'.ok) =>
            /\ Released(portfolio', lastCall'.date, lastCall'.symbol)
                  = Released(portfolio, lastCall'.date, lastCall'.symbol) + lastCall'.quantity
            /\ GetAvailableQuantity(portfolio', lastCall'.symbol, lastCall'.date)
                  = GetAvailableQuantity(portfolio, lastCall'.symbol, lastCall'.date)
      /\ (lastCall'.op = "sell" /\ lastCall'.ok) =>
            /\ lastCall'.symbol \in DOMAIN portfolio.positions
            /\ lastCall'.quantity <= portfolio.positions[lastCall'.symbol].available
      /\ (lastCall'.op = "settle_day") =>
            /\ lastCall'.date \notin DOMAIN portfolio'.pending_t1
            /\ DOMAIN portfolio'.positions = DOMAIN portfolio.positions
            /\ DOMAIN DictGet(portfolio.pending_t1, lastCall'.date, << >>)
                  \subseteq DOMAIN portfolio.positions
            /\ \A s \in DOMAIN portfolio.positions :
                  portfolio'.positions[s].available
                    = portfolio.positions[s].available
                        + Released(portfolio, lastCall'.date, s)
      /\ (lastCall'.op # "settle_day") =>
            \A s \in DOMAIN portfolio.positions \cap DOMAIN portfolio'.positions :
                portfolio'.positions[s].available <= portfolio.positions[s].available

C3_SettleReleasesPending == [][C3_StepT1]_vars

\* T+1: settle_day(d) has just released a quantity bought on d
C3_Witness ==
    /\ portfolio.trade_mode = "T+1"
    /\ lastCall.op = "settle_day"
    /\ lastCall.date \notin DOMAIN portfolio.pending_t1
    /\ \E s \in DOMAIN portfolio.positions :
          /\ portfolio.positions[s].buy_date = lastCall.date
          /\ portfolio.positions[s].available > 0

\* C4: in every reachable state and for every held symbol s, the sum over
\* all dates d of pendingT1[d][s] is at most quantity minus available.
C4_PendingBounded ==
    \A s \in DOMAIN portfolio.positions :
        PendingTotal(portfolio, s)
          <= portfolio.positions[s].quantity - portfolio.positions[s].available

\* a held symbol has quantities pending on two dates and a settled part
C4_Witness ==
    \E s \in DOMAIN portfolio.positions :
        /\ \E d1, d2 \in DOMAIN portfolio.pending_t1 :
              /\ d1 # d2
              /\ Released(portfolio, d1, s) > 0
              /\ Released(portfolio, d2, s) > 0
        /\ PendingTotal(portfolio, s) < portfolio.positions[s].quantity

\* ------------------------------------------------------------------------
\* Event bus properties
\* ------------------------------------------------------------------------
\* the handler invocations the log holds for one dispatched event
HandlerCalls(log, e) ==
    LET IsCall(x) == x.kind = "handler" /\ x.ev = e
    IN SelectSeq(log, IsCall)

\* the registered HandlerInfo a log entry was invoked from
InfoOf(x) == [handler |-> x.who, priority |-> x.priority, reg |-> x.reg]

DispatchedEvents(log) == {log[i].ev : i \in 1..Len(log)}

\* C5: for every event dispatched by put, start or stop, the handlers
\* registered for its type are all invoked, in descending priority order, and
\* handlers of equal priority in the order of their registration, whatever
\* register and unregister calls came before.
C5_PriorityOrder ==
    lastCall.ok =>
      \A e \in DispatchedEvents(busLog) :
        LET calls == HandlerCalls(busLog, e)
        IN calls # << >> =>
             /\ [i \in 1..Len(calls) |-> InfoOf(calls[i])]
                   = DictGet(engine.handlers, calls[1].type, << >>)
             /\ \A i, j \in 1..Len(calls) :
                   i < j =>
                     \/ calls[i].priority > calls[j].priority
                     \/ /\ calls[i].priority = calls[j].priority
                        /\ calls[i].reg < calls[j].reg

\* a put has invoked two different handlers of equal priority
C5_Witness ==
    /\ lastCall.op = "put" /\ lastCall.ok
    /\ LET calls == HandlerCalls(busLog, 1)
       IN /\ Len(calls) = 2
          /\ calls[1].priority = calls[2].priority
          /\ calls[1].who # calls[2].who

\* number of registrations in a handler list that raise when invoked
RaisingCount(list) == Cardinality({i \in 1..Len(list) : list[i].handler = "hRaise"})

\* C6: a put on a running bus whose middlewares pass the event on and whose
\* type has N registered handlers, K raising and the others returning no
\* event, invokes all N, raises errorCount by exactly K, and returns normally.
C6_StepIsolated ==
    LET list == DictGet(engine.handlers, lastCall'.type, << >>)
    IN ( /\ lastCall'.op = "put"
         /\ engine.running
         /\ \A j \in 1..Len(engine.middlewares) : engine.middlewares[j] = "mPass"
         /\ \A i \in 1..Len(list) : list[i].handler \in {"hNone", "hRaise"} )
       =>
       ( /\ lastCall'.ok
         /\ LET calls == HandlerCalls(busLog', 1)
            IN [i \in 1..Len(calls) |-> InfoOf(calls[i])] = list
         /\ engine'.error_count = engine.error_count + RaisingCount(list)
         /\ engine'.event_count = engine.event_count + 1 )

C6_ErrorIsolation == [][C6_StepIsolated]_vars

\* a put has invoked a raising handler and then a handler that completed
C6_Witness ==
    /\ lastCall.op = "put" /\ lastCall.ok
    /\ engine.error_count = 1
    /\ LET calls == HandlerCalls(busLog, 1)
       IN /\ Len(calls) = 2
          /\ calls[1].who = "hRaise"
          /\ calls[2].who = "hNone"

\* the events whose put has invoked something
PutsIn(log) == {log[i].put : i \in 1..Len(log)}

\* the invocations of one kind made by the put of event p, in log order
CallsOfPut(log, kind, p) ==
    LET IsCall(x) == x.kind = kind /\ x.put = p
    IN SelectSeq(log, IsCall)

\* a middleware invocation that returned None
Drops(x) == x.kind = "middleware" /\ ~x.failed /\ x.out = NoEvent.id

\* the event put goes on with after a middleware invocation that did not
\* drop it: the one returned, or the one received when the middleware raised
Passed(x) == IF x.failed THEN x.ev ELSE x.out

\* in the put of event p every middleware invocation precedes every handler
\* invocation
MiddlewaresFirst(log, p) ==
    \A i, j \in 1..Len(log) :
        ( /\ log[i].put = p /\ log[i].kind = "middleware"
          /\ log[j].put = p /\ log[j].kind = "handler" ) => i < j

\* C16: on every put to a running bus the middlewares run in registration
\* order before any handler, each receiving the event returned by the
\* previous one; once a middleware returns None no later middleware and no
\* handler is invoked for that event.
C16_MiddlewareChain ==
    \A p \in PutsIn(busLog) :
        LET mws == CallsOfPut(busLog, "middleware", p)
            hs == CallsOfPut(busLog, "handler", p)
            n == Len(mws)
        IN /\ n <= Len(engine.middlewares)
           /\ \A i \in 1..n : mws[i].who = engine.middlewares[i]
           /\ n > 0 => mws[1].ev = p
           /\ \A i \in 1..(n - 1) : ~Drops(mws[i]) /\ mws[i + 1].ev = Passed(mws[i])
           /\ MiddlewaresFirst(busLog, p)
           /\ IF n > 0 /\ Drops(mws[n])
              THEN hs = << >>
              ELSE /\ n = Len(engine.middlewares)
                   /\ \A k \in 1..Len(hs) :
                         hs[k].ev = IF n = 0 THEN p ELSE Passed(mws[n])

\* a put went through two middlewares, the second receiving the event the
\* first one had substituted, and then invoked a handler with what the
\* second returned
C16_Witness ==
    /\ lastCall.op = "put" /\ lastCall.ok
    /\ LET mws == CallsOfPut(busLog, "middleware", 1)
           hs == CallsOfPut(busLog, "handler", 1)
       IN /\ Len(mws) = 2
          /\ mws[1].who = "mSubst"
          /\ mws[2].ev = mws[1].out /\ mws[2].ev # 1
          /\ hs # << >>
          /\ hs[1].ev = mws[2].out

\* number of invocations in the log that ended in an except clause of put
FailedCount(log) == Cardinality({i \in 1..Len(log) : log[i].failed})

\* the place of the k-th log entry among the middleware invocations of its put
MiddlewareIndex(log, k) ==
    Cardinality({i \in 1..k : log[i].kind = "middleware" /\ log[i].put = log[k].put})

\* C17: when a middleware raises during a put on a running bus, errorCount
\* goes up by exactly one for it, the put returns normally, and the dispatch
\* goes on with the event the failing middleware had received: to the next
\* middleware if there is one, else to the handlers of the event's type.
C17_StepContinues ==
    (lastCall'.op = "put" /\ engine.running)
    =>
    /\ lastCall'.ok
    /\ engine'.error_count = engine.error_count + FailedCount(busLog')
    /\ \A k \in 1..Len(busLog') :
          LET x == busLog'[k]
              j == MiddlewareIndex(busLog', k)
              hs == CallsOfPut(busLog', "handler", x.put)
          IN (x.kind = "middleware" /\ x.failed) =>
               IF j < Len(engine.middlewares)
               THEN /\ k < Len(busLog')
                    /\ busLog'[k + 1].kind = "middleware"
                    /\ busLog'[k + 1].put = x.put
                    /\ busLog'[k + 1].who = engine.middlewares[j + 1]
                    /\ busLog'[k + 1].ev = x.ev
               ELSE /\ [i \in 1..Len(hs) |-> InfoOf(hs[i])]
                          = DictGet(engine.handlers, x.type, << >>)
                    /\ \A i \in 1..Len(hs) : hs[i].ev = x.ev

C17_MiddlewareErrorIsolation == [][C17_StepContinues]_vars

\* a put whose first middleware raised has gone on to the second middleware
\* and to a handler with the event it was given, errorCount being one
C17_Witness ==
    /\ lastCall.op = "put" /\ lastCall.ok
    /\ engine.error_count = 1
    /\ Len(busLog) = 3
    /\ busLog[1].kind = "middleware" /\ busLog[1].failed
    /\ busLog[2].kind = "middleware" /\ busLog[2].ev = 1 /\ ~busLog[2].failed
    /\ busLog[3].kind = "handler" /\ busLog[3].ev = 1

\* a handler invocation that returned an event other than the one it received
ReturnsOther(x) == x.kind = "handler" /\ x.out # NoEvent.id /\ x.out # x.ev

\* the put of event q, of the given type, has run to its end in the log: a
\* middleware dropped the event, or every middleware ran and then every
\* handler registered for the type of the event the middlewares passed on
Handled(log, eng, q, type) ==
    LET mws == CallsOfPut(log, "middleware", q)
        hs == CallsOfPut(log, "handler", q)
        n == Len(mws)
        passed_type == IF n = 0 THEN type
                       ELSE IF mws[n].failed THEN mws[n].type ELSE mws[n].out_type
    IN \/ n > 0 /\ Drops(mws[n])
       \/ /\ n = Len(eng.middlewares)
          /\ [i \in 1..Len(hs) |-> InfoOf(hs[i])] = DictGet(eng.handlers, passed_type, << >>)

\* everything the put of the event returned by the k-th invocation has
\* invoked lies after that invocation and before the next invocation made
\* by the put the k-th invocation belongs to
Nested(log, k) ==
    \A i \in 1..Len(log) :
        log[i].put = log[k].out =>
          /\ i > k
          /\ \A j \in (k + 1)..Len(log) : log[j].put = log[k].put => i < j

\* the handler invocations of the log whose returned event was to be put
Returned(log) == {k \in 1..Len(log) : ReturnsOther(log[k])}

\* C18 as the specification states it: every event a handler returns that is
\* neither None nor the event received is dispatched through put and
\* completely handled before the outer put goes on, and nothing else is
\* re-dispatched.
C18_StepAsStated ==
    (lastCall'.op = "put" /\ engine.running)
    =>
    /\ \A k \in Returned(busLog') :
          /\ Handled(busLog', engine, busLog'[k].out, busLog'[k].out_type)
          /\ Nested(busLog', k)
    /\ engine'.event_count = engine.event_count + 1 + Cardinality(Returned(busLog'))

C18_StepRedispatch ==
    (lastCall'.op = "put" /\ engine.running)
    =>
    LET completed == {k \in Returned(busLog') : ~busLog'[k].failed}
    IN /\ \A k \in completed :
             /\ Handled(busLog', engine, busLog'[k].out, busLog'[k].out_type)
             /\ Nested(busLog', k)
       /\ engine'.event_count = engine.event_count + 1 + Cardinality(completed)

C19_StepStopped ==
    (lastCall'.op = "put" /\ ~engine.running) => busLog' = << >>

C19_StoppedInvokesNothing == [][C19_StepStopped]_vars

\* a put was made after stop had returned, on a bus holding a middleware and
\* a handler for the type of the event, and invoked nothing
C19_Witness ==
    /\ lastCall.op = "put"
    /\ ~engine.running /\ engine.event_count > 0
    /\ engine.middlewares # << >>
    /\ DictGet(engine.handlers, lastCall.type, << >>) # << >>
    /\ busLog = << >>

\* C20 as the specification states it: a put made while the bus is stopped
\* is counted, the statistics of get_stats after it differ from those before.
C20_StepAsStated ==
    (lastCall'.op = "put" /\ ~engine.running) => GetStats(engine') # GetStats(engine)

C20_AsStated == [][C20_StepAsStated]_vars

\* C20: a put made while the bus is stopped is dropped without being
\* counted: get_stats returns after it what it returned before.
C20_StepNotCounted ==
    (lastCall'.op = "put" /\ ~engine.running) => GetStats(engine') = GetStats(engine)

C20_DropNotCounted == [][C20_StepNotCounted]_vars

\* a put was made on a bus never started that holds a handler for the type of
\* the event, and the counters are still zero
C20_Witness ==
    /\ lastCall.op = "put"
    /\ ~engine.running
    /\ DictGet(engine.handlers, lastCall.type, << >>) # << >>
    /\ GetStats(engine).event_count = 0
    /\ GetStats(engine).error_count = 0

\* C21: eventCount is the number of events put on the running bus since the
\* last start, the START of start, the STOP of stop and the events handlers
\* re-dispatch included; after start, k puts without re-dispatch and stop it
\* is k + 2. Right after start the bus is running and errorCount holds the
\* failures of the START dispatch alone; stop dispatches STOP.
C21_EventCount ==
    /\ engine.event_count = sinceStart.accepted
    /\ (lastCall.op = "stop" /\ sinceStart.emitted = 2 /\ sinceStart.plain)
          => engine.event_count = sinceStart.puts + 2
    /\ lastCall.op = "start" =>
          /\ engine.running
          /\ sinceStart.puts = 0
          /\ engine.error_count = FailedCount(busLog)
    /\ (lastCall.op = "stop" /\ busLog # << >>) => busLog[1].type = "STOP"

\* the bus was started, took a put and was stopped, nothing re-dispatched
\* and its middleware having seen the STOP: eventCount is 3
C21_Witness ==
    /\ lastCall.op = "stop"
    /\ sinceStart = [emitted |-> 2, accepted |-> 3, plain |-> TRUE, puts |-> 1]
    /\ engine.event_count = 3
    /\ busLog # << >>

\* list without its i-th element, the others in their order
Without(list, i) ==
    [j \in 1..(Len(list) - 1) |-> IF j < i THEN list[j] ELSE list[j + 1]]

\* C23: unregister(type, handler) removes exactly one registration of the
\* handler for the type and returns True when there is one, and returns False
\* changing nothing when there is none; the other handlers of the type keep
\* their order and the handlers of other types are untouched.
C23_StepUnregister ==
    lastCall'.op = "unregister" =>
      LET t == lastCall'.type
          h == lastCall'.handler
          list == DictGet(engine.handlers, t, << >>)
      IN IF \E i \in 1..Len(list) : list[i].handler = h
         THEN /\ lastCall'.ok
              /\ \E i \in 1..Len(list) :
                    /\ list[i].handler = h
                    /\ engine'.handlers[t] = Without(list, i)
              /\ DOMAIN engine'.handlers = DOMAIN engine.handlers
              /\ \A u \in DOMAIN engine.handlers \ {t} :
                    engine'.handlers[u] = engine.handlers[u]
              /\ engine'.middlewares = engine.middlewares
              /\ GetStats(engine').handlers[t] = Len(list) - 1
         ELSE /\ ~lastCall'.ok
              /\ engine' = engine

C23_UnregisterRemovesOne == [][C23_StepUnregister]_vars

\* a handler registered twice for a type was unregistered once: one of its
\* registrations is still there
C23_Witness ==
    /\ lastCall.op = "unregister" /\ lastCall.ok
    /\ \E i \in 1..Len(engine.handlers[lastCall.type]) :
          engine.handlers[lastCall.type][i].handler = lastCall.handler

\* the types of the events the handlers of the log were invoked with
TypesSeen(log) == [k \in 1..Len(log) |-> log[k].type]

\* the handlers of the event-driven flow: BAR emits ORDER, ORDER emits TRADE
IsTradingFlow(eng) ==
    /\ DOMAIN eng.handlers = {"BAR", "ORDER", "TRADE"}
    /\ \A t \in {"BAR", "ORDER", "TRADE"} : Len(eng.handlers[t]) = 1
    /\ eng.handlers["BAR"][1].handler = "hCallEmit"
    /\ eng.handlers["ORDER"][1].handler = "hCallEmit"
    /\ eng.handlers["TRADE"][1].handler = "hNone"

\* C22: a handler registered with register_handler is invoked by emit of an
\* event of its type, and an event emitted from inside a handler is handled
\* before the emitting call returns: with a BAR handler that emits ORDER and
\* an ORDER handler that emits TRADE, emit of a BAR is observed as BAR, ORDER,
\* TRADE.
C22_StepEmit ==
    lastCall'.op = "emit" =>
      /\ LET calls == HandlerCalls(busLog', 1)
         IN [i \in 1..Len(calls) |-> InfoOf(calls[i])]
               = DictGet(engine.handlers, lastCall'.type, << >>)
      /\ (IsTradingFlow(engine) /\ lastCall'.type = "BAR")
            => TypesSeen(busLog') = <<"BAR", "ORDER", "TRADE">>

C22_EmitDispatches == [][C22_StepEmit]_vars

\* ------------------------------------------------------------------------
\* Plugin manager properties
\* ------------------------------------------------------------------------
\* names reachable from name along at most k dependency edges (at least one)
RECURSIVE DepsWithin(_, _, _)
DepsWithin(pm, name, k) ==
    IF k = 0 \/ name \notin RegisteredNames(pm) THEN {}
    ELSE LET direct == PluginNamed(pm, name).dependencies
         IN direct \cup UNION {DepsWithin(pm, d, k - 1) : d \in direct}

HasCycle(pm) ==
    \E n \in RegisteredNames(pm) : n \in DepsWithin(pm, n, Len(pm.plugins))

HasMissingDependency(pm) ==
    \E n \in RegisteredNames(pm) :
        PluginNamed(pm, n).dependencies \ RegisteredNames(pm) # {}

CallNames(calls) == [i \in 1..Len(calls) |-> calls[i].name]

\* position of a name in a sequence of names without repetition
IndexIn(names, n) == CHOOSE i \in 1..Len(names) : names[i] = n

\* C7: with an acyclic, fully registered dependency relation, initialize
\* calls setup on every registered plugin exactly once, each after the setups
\* of all its dependencies; the following shutdown, the registry being the
\* same, calls teardown on the same plugins in exactly the reverse order.
C7_StepLifecycle ==
    /\ ( /\ lastCall'.op = "initialize"
         /\ ~manager.initialized
         /\ ~HasCycle(manager) /\ ~HasMissingDependency(manager) )
       =>
       ( /\ lastCall'.ok /\ manager'.initialized
         /\ \A i \in 1..Len(pmLog') : pmLog'[i].call = "setup"
         /\ Len(pmLog') = Len(manager.plugins)
         /\ {pmLog'[i].name : i \in 1..Len(pmLog')} = RegisteredNames(manager)
         /\ \A n \in RegisteredNames(manager) :
              \A d \in PluginNamed(manager, n).dependencies :
                 IndexIn(CallNames(pmLog'), d) < IndexIn(CallNames(pmLog'), n) )
    /\ ( /\ lastCall'.op = "shutdown"
         /\ manager.initialized
         /\ ~lastInit.changed )
       =>
       ( /\ lastCall'.ok /\ ~manager'.initialized
         /\ \A i \in 1..Len(pmLog') : pmLog'[i].call = "teardown"
         /\ CallNames(pmLog') = Reverse(CallNames(lastInit.calls)) )

C7_TopologicalLifecycle == [][C7_StepLifecycle]_vars

\* strategy -> risk -> data registered dependents first: shutdown has just
\* torn the three down, the first registered first
C7_Witness ==
    /\ lastCall.op = "shutdown" /\ lastCall.ok
    /\ manager.plugins = << [name |-> "a", dependencies |-> {"b"}],
                            [name |-> "b", dependencies |-> {"c"}],
                            [name |-> "c", dependencies |-> {}] >>
    /\ CallNames(pmLog) = <<"a", "b", "c">>

\* C8: when the registered plugins of an uninitialized manager contain a
\* dependency cycle (a self-dependency included) or a dependency on an
\* unregistered name, initialize raises, calls no setup and leaves the manager
\* uninitialized; shutdown on an uninitialized manager calls no teardown.
C8_StepRejects ==
    /\ ( /\ lastCall'.op = "initialize"
         /\ ~manager.initialized
         /\ (HasCycle(manager) \/ HasMissingDependency(manager)) )
       =>
       ( /\ ~lastCall'.ok
         /\ pmLog' = << >>
         /\ manager' = manager )
    /\ ( /\ lastCall'.op = "shutdown" /\ ~manager.initialized )
       =>
       ( pmLog' = << >> /\ manager' = manager )

C8_CycleOrMissingRejected == [][C8_StepRejects]_vars

\* initialize has just raised on a registry whose only defect is a cycle
\* through two plugins
C8_Witness ==
    /\ lastCall.op = "initialize" /\ ~lastCall.ok
    /\ ~manager.initialized
    /\ ~HasMissingDependency(manager)
    /\ \E n, m \in RegisteredNames(manager) :
          /\ n # m
          /\ m \in PluginNamed(manager, n).dependencies
          /\ n \in PluginNamed(manager, m).dependencies

\* C24: initialize and shutdown are idempotent. An initialize on a manager
\* that is already initialized calls no setup, returns, and leaves the
\* manager (its stored order included) as it was; a shutdown on a manager
\* that is not initialized (none was made yet, or the last one was shut
\* down) calls no teardown and changes nothing; and a shutdown that follows
\* directly on a shutdown that returned calls no teardown.
C24_StepIdempotent ==
    /\ (lastCall'.op = "initialize" /\ manager.initialized) =>
          /\ pmLog' = << >>
          /\ lastCall'.ok
          /\ manager' = manager
          /\ manager'.init_order = manager.init_order
    /\ (lastCall'.op = "shutdown" /\ ~manager.initialized) =>
          /\ pmLog' = << >>
          /\ lastCall'.ok
          /\ manager' = manager
    /\ (lastCall.op = "shutdown" /\ lastCall.ok /\ lastCall'.op = "shutdown") =>
          pmLog' = << >>

C24_Idempotent == [][C24_StepIdempotent]_vars

\* a second initialize was made on a manager holding a non-empty order: it
\* called nothing
C24_Witness ==
    /\ lastCall.op = "initialize"
    /\ lastCall.ok
    /\ manager.initialized
    /\ manager.init_order # << >>
    /\ pmLog = << >>

\* the names of the registered plugins, in registration order
RegisteredSeq(pm) == [i \in 1..Len(pm.plugins) |-> pm.plugins[i].name]

\* the registered plugins, in registration order, that have a callable
\* member named hook_name
CallableOn(pm, hook_name) ==
    SelectSeq(RegisteredSeq(pm),
              LAMBDA n : HookMember(n, hook_name) \in {"returns", "raises"})

\* C25: call_hook invokes the hook on exactly the registered plugins that
\* have a callable member of that name, in registration order, and returns
\* their values in that order; when one of them raises, the call fails and
\* the hook of no later plugin is invoked. The manager is left as it was.
C25_StepCallHook ==
    lastCall'.op = "call_hook" =>
       LET hook_name == lastCall'.hook
           able == CallableOn(manager, hook_name)
           raisers == {i \in 1..Len(able) : HookMember(able[i], hook_name) = "raises"}
       IN /\ manager' = manager
          /\ \A i \in 1..Len(pmLog') : pmLog'[i].call = hook_name
          /\ IF raisers = {}
             THEN /\ lastCall'.ok
                  /\ CallNames(pmLog') = able
                  /\ lastCall'.results = able
             ELSE LET k == CHOOSE i \in raisers : \A j \in raisers : i <= j
                  IN /\ ~lastCall'.ok
                     /\ CallNames(pmLog') = SubSeq(able, 1, k)

C25_CallHook == [][C25_StepCallHook]_vars

\* a call over three plugins of which the middle one has no such member:
\* the other two were invoked, in registration order
C25_Witness ==
    /\ lastCall.op = "call_hook"
    /\ lastCall.ok
    /\ Len(manager.plugins) = 3
    /\ Len(lastCall.results) = 2
    /\ manager.plugins[2].name = "b"
    /\ lastCall.results = <<manager.plugins[1].name, manager.plugins[3].name>>

\* ------------------------------------------------------------------------
\* Hook caller properties
\* ------------------------------------------------------------------------
\* the implementation function with the given id
ImplOf(hc, id) ==
    hc.implementations[CHOOSE i \in 1..Len(hc.implementations) :
                          hc.implementations[i].func.id = id].func

\* f is called before g: its priority is higher, or equal and f was
\* registered first (ids count the registrations)
RunsBefore(f, g) ==
    \/ f.priority > g.priority
    \/ f.priority = g.priority /\ f.id < g.id

\* C26: a HookCaller in first_result mode that holds implementations calls
\* them in descending priority, equal priorities in registration order,
\* up to and including the first that returns a value other than None, and
\* returns that value; it calls every one and returns None when all of
\* them return None.
C26_StepFirstResult ==
    (lastCall'.op = "hook_call" /\ hookCaller.first_result
        /\ hookCaller.implementations # << >>) =>
       LET called == {hookLog'[i] : i \in 1..Len(hookLog')}
           all == {hookCaller.implementations[i].func :
                      i \in 1..Len(hookCaller.implementations)}
           valued == {f \in all : f.kind = "returns"}
       IN /\ lastCall'.ok
          /\ hookCaller' = hookCaller
          /\ Cardinality(called) = Len(hookLog')
          /\ \A i, j \in 1..Len(hookLog') :
                i < j => RunsBefore(ImplOf(hookCaller, hookLog'[i]),
                                    ImplOf(hookCaller, hookLog'[j]))
          /\ IF valued = {}
             THEN /\ lastCall'.result = NoneResult
                  /\ called = {f.id : f \in all}
             ELSE LET first == CHOOSE f \in valued :
                                  \A g \in valued \ {f} : RunsBefore(f, g)
                  IN /\ lastCall'.result = ValueResult(first.id)
                     /\ hookLog'[Len(hookLog')] = first.id
                     /\ called = {first.id} \cup
                                 {f.id : f \in {g \in all : RunsBefore(g, first)}}

C26_FirstResult == [][C26_StepFirstResult]_vars

\* as in the repository's test: the implementation of highest priority was
\* registered last and returns None, the next one returns its value, and the
\* one of lowest priority, registered first, is not called
C26_Witness ==
    /\ lastCall.op = "hook_call"
    /\ hookCaller.first_result
    /\ Len(hookCaller.implementations) = 3
    /\ hookCaller.implementations[1].func = HookImpl(3, "returns_none", 2)
    /\ hookCaller.implementations[2].func = HookImpl(2, "returns", 1)
    /\ hookCaller.implementations[3].func = HookImpl(1, "returns", 0)
    /\ hookLog = <<3, 2>>
    /\ lastCall.result = ValueResult(2)

\* ------------------------------------------------------------------------
\* Risk engine properties
\* ------------------------------------------------------------------------
\* C9: check_order, for every combination of built-in rules and every valid
\* order, and check_position leave the portfolio as it was: cash, every
\* position's quantity, avgCost, available and lastBuyDate, and pendingT1.
C9_StepChecksPure ==
    ( \/ lastCall'.op = "check_order" /\ lastCall'.valid
      \/ lastCall'.op = "check_position" )
    => portfolio' = portfolio

C9_ChecksLeavePortfolio == [][C9_StepChecksPure]_vars

\* a valid BUY has just been rejected by the ratio rule, evaluated together
\* with a second rule against a portfolio that holds a position
C9_Witness ==
    /\ lastCall.op = "check_order" /\ lastCall.ok /\ lastCall.valid
    /\ ~lastCall.passed
    /\ Len(riskManager.rules) = 2
    /\ \E i \in 1..Len(riskManager.violations) :
          riskManager.violations[i].rule = "MaxPositionRatio"
    /\ DOMAIN portfolio.positions # {}

RECURSIVE Flatten(_)
Flatten(lists) == IF lists = << >> THEN << >> ELSE Head(lists) \o Flatten(Tail(lists))

\* C27: a check_order that returns has called every rule of the list, in
\* rule order, whether or not an earlier rule reported a violation; the
\* violations it returns are those the rules gave back, one rule after the
\* other; passed is true exactly when that list is empty; and
\* get_violations then returns exactly that list.
C27_StepCheckOrder ==
    (lastCall'.op = "check_order" /\ lastCall'.ok) =>
       LET rules == riskManager.rules
           calls == lastCall'.calls
       IN /\ Len(calls) = Len(rules)
          /\ \A i \in 1..Len(calls) : calls[i].rule = rules[i].kind
          /\ lastCall'.violations =
                Flatten([i \in 1..Len(calls) |-> calls[i].violations])
          /\ lastCall'.passed <=> (lastCall'.violations = << >>)
          /\ GetViolations(riskManager') = lastCall'.violations

C27_AllRulesEvaluated == [][C27_StepCheckOrder]_vars

\* the first rule reported a violation, the second rule was called all the
\* same, and its violation is in the list behind the first one's
C27_Witness ==
    /\ lastCall.op = "check_order" /\ lastCall.ok /\ ~lastCall.passed
    /\ Len(riskManager.rules) = 2
    /\ Len(lastCall.calls) = 2
    /\ lastCall.calls[1].violations # << >>
    /\ lastCall.calls[2].violations # << >>
    /\ lastCall.violations = lastCall.calls[1].violations \o lastCall.calls[2].violations
    /\ GetViolations(riskManager) = lastCall.violations

\* C28: for every order that breaks the Order invariants (empty symbol,
\* side outside BUY and SELL, quantity not positive, price missing or not
\* positive) and every manager holding at least one built-in rule,
\* check_order raises and never returns passed = true.
C28_StepInvalidRaises ==
    (lastCall'.op = "check_order" /\ ~lastCall'.valid /\ Len(riskManager.rules) >= 1) =>
       /\ ~lastCall'.ok
       /\ ~lastCall'.passed

C28_InvalidOrderRaises == [][C28_StepInvalidRaises]_vars

\* the condition of the ratio rule: a BUY, a positive total value P under the
\* given prices, and (holding at its given price, or at cost when none is
\* given, plus quantity * price) / P > r
ExceedsRatio(r, order, pf, prices) ==
    LET P == GetTotalValue(pf, prices)
        s == order.symbol
        holding == IF s \in DOMAIN pf.positions
                   THEN RatMul(RatInt(pf.positions[s].quantity),
                               IF s \in DOMAIN prices THEN prices[s]
                               ELSE pf.positions[s].cost)
                   ELSE RatZero
        projected == RatAdd(holding, RatInt(order.quantity * order.price))
    IN /\ Upper(order.side) = "BUY"
       /\ RatLt(RatZero, P)
       /\ RatLt(RatMul(r, P), projected)

\* C29: a MaxPositionRatio(r).check_order that returns reports a violation
\* (exactly one) exactly when the order is a BUY, the total value P of the
\* portfolio under the given prices is positive, and the projected value of
\* the symbol divided by P exceeds r; a SELL, or a P that is not positive,
\* gives none.
C29_StepRatioRule ==
    (lastCall'.op = "ratio_check_order" /\ lastCall'.ok) =>
       LET order == lastCall'.order
           prices == lastCall'.prices
       IN /\ Len(lastCall'.violations) =
                (IF ExceedsRatio(lastCall'.rule.param, order, portfolio, prices)
                 THEN 1 ELSE 0)
          /\ (Upper(order.side) = "SELL" \/ RatLe(GetTotalValue(portfolio, prices), RatZero))
                => lastCall'.violations = << >>

C29_RatioRule == [][C29_StepRatioRule]_vars

\* a BUY whose own amount stays within the ratio was rejected because of the
\* holding already in the portfolio, valued at the given price
C29_Witness ==
    /\ lastCall.op = "ratio_check_order" /\ lastCall.ok
    /\ lastCall.order.side = "BUY"
    /\ lastCall.order.symbol \in DOMAIN portfolio.positions
    /\ lastCall.order.symbol \in DOMAIN lastCall.prices
    /\ lastCall.rule.param = Half
    /\ Len(lastCall.violations) = 1
    /\ RatLe(RatInt(lastCall.order.quantity * lastCall.order.price),
             RatMul(Half, GetTotalValue(portfolio, lastCall.prices)))

\* ------------------------------------------------------------------------
\* Context properties
\* ------------------------------------------------------------------------
\* C10: after any exit of a Context scope, normal or by a raised exception,
\* at any nesting depth within one flow, get_current_context() returns the
\* value it returned immediately before the matching enter.
C10_StepRestores ==
    lastCall'.op = "exit" =>
      /\ lastCall'.ok
      /\ GetCurrentContext(ctxState', lastCall'.flow) = lastCall'.before

C10_ExitRestoresPrevious == [][C10_StepRestores]_vars

\* an exception has just left a block nested inside two others; the Context
\* of the innermost block still open is current again
C10_Witness ==
    /\ lastCall.op = "exit" /\ lastCall.exceptional
    /\ \E f \in Flows :
          /\ Len(scopes[f]) >= 2
          /\ scopes[f][Len(scopes[f])].ctx = "c1"
          /\ ctxState.tokens["c1"] # << >>
          /\ GetCurrentContext(ctxState, f) = "c1"

\* C31: the current context is kept per flow. A forked flow starts with the
\* binding of the flow that forked it; an enter, exit or set_current_context
\* of one flow leaves the current context of every other flow as it was;
\* and with flows interleaving their enters and exits, on one shared
\* Context object too, every exit returns and restores what
\* get_current_context returned in its own flow before the matching enter.
C31_StepIsolated ==
    /\ lastCall'.op = "fork" =>
          /\ GetCurrentContext(ctxState', lastCall'.flow)
                = GetCurrentContext(ctxState, lastCall'.parent)
          /\ \A g \in LiveFlows(ctxState) :
                GetCurrentContext(ctxState', g) = GetCurrentContext(ctxState, g)
    /\ lastCall'.op \in {"enter", "exit", "set_current"} =>
          \A g \in LiveFlows(ctxState) \ {lastCall'.flow} :
             GetCurrentContext(ctxState', g) = GetCurrentContext(ctxState, g)
    /\ lastCall'.op = "exit" =>
          /\ lastCall'.ok
          /\ GetCurrentContext(ctxState', lastCall'.flow) = lastCall'.before

C31_FlowsIsolated == [][C31_StepIsolated]_vars

\* ------------------------------------------------------------------------
\* Backtest properties
\* ------------------------------------------------------------------------
RunIndices == 1..Len(btRuns)

\* the dates of the bars of the data that lie inside the window
BarDatesInWindow(inputs) ==
    {inputs.data[i].date : i \in 1..Len(inputs.data)}
        \cap (inputs.start_date..inputs.end_date)

\* C11: the net value series of a run has at most one point per distinct bar
\* date inside [start_date, end_date], no date outside the window, and its
\* dates ascend.
C11_NetValueSeriesDates ==
    \A k \in RunIndices :
      LET r == btRuns[k]
          series == r.result.net_value_series
      IN ~r.raised =>
           /\ \A i \in 1..Len(series) : series[i].date \in BarDatesInWindow(r.inputs)
           /\ \A i, j \in 1..Len(series) : i < j => series[i].date < series[j].date
           /\ Len(series) <= Cardinality(BarDatesInWindow(r.inputs))

\* the data gives a bar past the end of the window before a bar inside it;
\* the series has a point for the date inside only
C11_Witness ==
    \E k \in RunIndices :
      LET r == btRuns[k]
          data == r.inputs.data
          series == r.result.net_value_series
      IN /\ Len(data) >= 2
         /\ data[1].date > data[2].date
         /\ \E i \in 1..Len(data) : data[i].date > r.inputs.end_date
         /\ Len(series) >= 1
         /\ Len(series) < Len(data)

\* C12: two runs given the same strategy behaviour, bars and window on
\* engines constructed alike return equal results, also when the later run
\* is made on the engine of the earlier one.
C12_ReplayDeterminism ==
    \A i, j \in RunIndices :
      btRuns[i].inputs = btRuns[j].inputs =>
        /\ btRuns[i].raised = btRuns[j].raised
        /\ btRuns[i].result = btRuns[j].result

\* a run that traded and valued two dates was repeated on the same engine
C12_Witness ==
    /\ Len(btRuns) = 2
    /\ btRuns[2].reused
    /\ btRuns[1].result.trade_count >= 1
    /\ Len(btRuns[1].result.net_value_series) = 2

\* the strategy answers [BUY q of A, SELL q of A] on the only replayed date
RoundTrip(inputs, q) ==
    /\ Len(ReplayedDates(inputs)) = 1
    /\ inputs.strategy.first = Returns(<<Signal("A", "BUY", q), Signal("A", "SELL", q)>>)

\* the close of the last bar of the only replayed date
LastClose(inputs) ==
    LET day_bars == DailyBars(inputs.data, inputs.start_date,
                              inputs.end_date)[ReplayedDates(inputs)[1]]
    IN day_bars[Len(day_bars)].close

FreeOfCosts(bt) == bt.slippage = RatZero /\ bt.commission_rate = RatZero

\* the run that left the engine in its present state
LatestRun == btRuns[Len(btRuns)]

\* C13: T+0 round trip. With slippage 0 and commission rate 0, when the
\* strategy returns [BUY q, SELL q] of one symbol on one date and q*close is
\* within the cash, both orders trade, no position remains and cash is the
\* initial cash.
C13_T0RoundTrip ==
    \A q \in 1..MaxQty :
      ( /\ btRuns # << >>
        /\ backtest.trade_mode = "T+0"
        /\ FreeOfCosts(backtest)
        /\ RoundTrip(LatestRun.inputs, q)
        /\ q * LastClose(LatestRun.inputs) <= backtest.initial_cash )
      => /\ ~LatestRun.raised
         /\ LatestRun.result.trade_count = 2
         /\ "A" \notin DOMAIN backtest.portfolio.positions
         /\ backtest.portfolio.cash = RatInt(backtest.initial_cash)

C13_Witness ==
    /\ btRuns # << >>
    /\ backtest.trade_mode = "T+0"
    /\ FreeOfCosts(backtest)
    /\ RoundTrip(LatestRun.inputs, MaxQty)
    /\ LastClose(LatestRun.inputs) = MaxClose
    /\ LatestRun.result.trade_count = 2

\* the T+1 block scenario: the round trip of C13 on a T+1 engine
T1Block(q) ==
    /\ btRuns # << >>
    /\ backtest.trade_mode = "T+1"
    /\ FreeOfCosts(backtest)
    /\ RoundTrip(LatestRun.inputs, q)
    /\ q * LastClose(LatestRun.inputs) <= backtest.initial_cash

\* C14 as the specification states it: only the buy trades and at the end of
\* the day the position has quantity q with available = 0.
C14_AsStated ==
    \A q \in 1..MaxQty :
      T1Block(q) =>
        /\ ~LatestRun.raised
        /\ LatestRun.result.trade_count = 1
        /\ "A" \in DOMAIN backtest.portfolio.positions
        /\ backtest.portfolio.positions["A"].quantity = q
        /\ backtest.portfolio.positions["A"].available = 0

\* C14: on a T+1 engine only the buy of a same-day round trip trades, the
\* sell being skipped without raising because nothing is available when it
\* is tried; at the end of the day, after the day-end settle_day, the
\* position has quantity q with available = q.
C14_T1Block ==
    \A q \in 1..MaxQty :
      T1Block(q) =>
        /\ ~LatestRun.raised
        /\ LatestRun.result.trade_count = 1
        /\ LatestRun.result.trades[1].side = "BUY"
        /\ \E i \in 1..Len(LatestRun.log) :
              /\ LatestRun.log[i].kind = "order"
              /\ LatestRun.log[i].side = "SELL"
              /\ ~LatestRun.log[i].traded
              /\ LatestRun.log[i].held = q
              /\ LatestRun.log[i].available = 0
        /\ "A" \in DOMAIN backtest.portfolio.positions
        /\ backtest.portfolio.positions["A"].quantity = q
        /\ backtest.portfolio.positions["A"].available = q
        /\ backtest.portfolio.pending_t1 = << >>

C14_Witness ==
    /\ T1Block(MaxQty)
    /\ LatestRun.result.trade_count = 1
    /\ backtest.portfolio.positions["A"].available = MaxQty

\* quantity of a symbol traded by the orders of a log selected by Sel
Filled(log, side, symbol, Sel(_)) ==
    LET idx == {i \in 1..Len(log) :
                  /\ log[i].kind = "order" /\ log[i].side = side
                  /\ log[i].symbol = symbol /\ Sel(i)}
    IN SumOver([i \in idx |-> log[i].filled], idx)

\* holding of a symbol when the replay of a date begins
HeldAtStart(log, date, symbol) ==
    Filled(log, "BUY", symbol, LAMBDA i : log[i].date < date)
      - Filled(log, "SELL", symbol, LAMBDA i : log[i].date < date)

\* quantity of a symbol sold on a date by the orders before the i-th event
SoldEarlier(log, i, symbol) ==
    Filled(log, "SELL", symbol, LAMBDA j : log[j].date = log[i].date /\ j < i)

\* the order events of a date, in the order they were processed
OrdersOf(log, date) ==
    SelectSeq(log, LAMBDA e : e.kind = "order" /\ e.date = date)

\* C15: the replay takes the dates in ascending order, processes the orders
\* of a date in the order the strategy returned them, and calls
\* settle_day(date) only after all orders of that date; so in T+1 mode a
\* sell trades exactly when its quantity is within what was held when the
\* date began (bought on an earlier replayed date) and not yet sold that date.
C15_ReplayOrder ==
    \A k \in RunIndices :
      LET r == btRuns[k]
          log == r.log
          Calls == {i \in 1..Len(log) : log[i].kind = "on_bar"}
      IN /\ \A i, j \in Calls : i < j => log[i].date < log[j].date
         /\ \A i \in Calls :
              LET raw == StrategyOnBar(r.inputs.strategy, log[i].idx)
                  orders == OrdersOf(log, log[i].date)
              IN /\ Len(orders) = Len(raw.items)
                 /\ \A n \in 1..Len(orders) :
                      /\ orders[n].idx = n
                      /\ orders[n].symbol = raw.items[n].symbol
                      /\ orders[n].side = UpperSide(raw.items[n].side)
                      /\ raw.items[n].quantity \notin {0, NoQuantity} =>
                            orders[n].quantity = raw.items[n].quantity
                 \* the orders come after the call and before the settlement
                 /\ \A j \in 1..Len(log) :
                      (log[j].kind = "order" /\ log[j].date = log[i].date) => i < j
                 /\ \E j \in 1..Len(log) :
                      log[j].kind = "settle_day" /\ log[j].date = log[i].date
         /\ \A i, j \in 1..Len(log) :
              ( /\ log[i].kind = "settle_day"
                /\ log[j].date = log[i].date
                /\ log[j].kind \in {"order", "on_bar"} ) => j < i
         /\ backtest.trade_mode = "T+1" =>
              \A i \in 1..Len(log) :
                ( /\ log[i].kind = "order" /\ log[i].side = "SELL"
                  /\ log[i].quantity >= 1 /\ log[i].priced )
                => ( log[i].traded <=>
                       log[i].quantity <= HeldAtStart(log, log[i].date, log[i].symbol)
                                            - SoldEarlier(log, i, log[i].symbol) )

\* T+1: a quantity was bought on one date, its sale the same date was
\* skipped, and its sale on the next replayed date traded
C15_Witness ==
    /\ backtest.trade_mode = "T+1"
    /\ \E k \in RunIndices :
         LET log == btRuns[k].log
         IN \E i, j, l \in 1..Len(log) :
              /\ i < j /\ j < l
              /\ log[i].kind = "order" /\ log[i].side = "BUY" /\ log[i].traded
              /\ log[j].kind = "order" /\ log[j].side = "SELL" /\ ~log[j].traded
              /\ log[j].date = log[i].date
              /\ log[l].kind = "order" /\ log[l].side = "SELL" /\ log[l].traded
              /\ log[l].date > log[i].date
              /\ log[l].quantity = log[i].quantity

\* the number of the on_bar call that produced the k-th entry of a run's log
CallOf(log, k) == Cardinality({j \in 1..k : log[j].kind = "on_bar"})

\* the raw signal behind the order logged as the k-th entry of a run
SignalOf(run, k) ==
    StrategyOnBar(run.inputs.strategy, CallOf(run.log, k)).items[run.log[k].idx]

\* floor(0.3 * cash / close) for a BUY, the whole holding for a SELL
AutoSize(e) ==
    IF e.side = "BUY"
    THEN (3 * e.cash.n * e.close.d) \div (10 * e.cash.d * e.close.n)
    ELSE e.held

\* C30: in a run, a signal whose quantity is missing or not positive, for a
\* priced symbol and a side of BUY or SELL, is auto-sized when it is matched:
\* a BUY is matched for floor(0.3 * cash / close) units and a SELL for the
\* whole holding of the symbol, and it is given no trade only when that
\* quantity is not positive.
C30_AutoSized ==
    \A r \in RunIndices : \A k \in 1..Len(btRuns[r].log) :
       LET e == btRuns[r].log[k]
       IN (/\ e.kind = "order"
           /\ SignalOf(btRuns[r], k).quantity <= 0
           /\ e.symbol # NoSymbol
           /\ e.side \in {"BUY", "SELL"}
           /\ e.priced)
          => e.matched = (IF AutoSize(e) > 0 THEN AutoSize(e) ELSE 0)

\* ------------------------------------------------------------------------
\* Termination of put
\* ------------------------------------------------------------------------
\* nesting depth of the put of event q in the log: 1 for the put of the
\* caller, one more than the put whose handler returned q otherwise
RECURSIVE DepthOf(_, _)
DepthOf(log, q) ==
    IF \E k \in 1..Len(log) : ReturnsOther(log[k]) /\ log[k].out = q
    THEN 1 + DepthOf(log, log[CHOOSE k \in 1..Len(log) :
                                  ReturnsOther(log[k]) /\ log[k].out = q].put)
    ELSE 1

\* the handler invocations of the log made by the put of event q
HandlerCallsOfPut(log, q) == {k \in 1..Len(log) : log[k].kind = "handler" /\ log[k].put = q}

\* what C40 says of one put on a running bus
C40_StepPutReturns ==
    (lastCall'.op = "put" /\ engine.running) =>
        /\ lastCall'.ok
        /\ engine'.running
        /\ \A k \in 1..Len(busLog') :
              /\ DepthOf(busLog', busLog'[k].put) <= RecursionLimit
              /\ busLog'[k].kind = "handler" =>
                    /\ Cardinality(HandlerCallsOfPut(busLog', busLog'[k].put))
                          <= Len(DictGet(engine.handlers, busLog'[k].type, << >>))
                    /\ \A j \in HandlerCallsOfPut(busLog', busLog'[k].put) :
                          busLog'[j].reg = busLog'[k].reg => j = k

C38_LimitRespected ==
    \A i \in 1..Len(btRuns) :
       \A k \in 1..Len(btRuns[i].log) :
          LET e == btRuns[i].log[k]
          IN (e.kind = "order" /\ e.order_type = "LIMIT" /\ e.traded) =>
                /\ e.side = "BUY" => RatLe(e.price, RatInt(e.limit))
                /\ e.side = "SELL" => RatLe(RatInt(e.limit), e.price)

\* ------------------------------------------------------------------------
\* Costs of a backtest
\* ------------------------------------------------------------------------
\* the price, the amount and the commission of the trade matched for an
\* order of the log
TradePriceOf(e) ==
    RatMul(e.close, IF e.side = "BUY" THEN RatAdd(RatInt(1), backtest.slippage)
                    ELSE RatSub(RatInt(1), backtest.slippage))
AmountOf(e) == RatMul(TradePriceOf(e), RatInt(e.matched))
CommissionOf(e) == RatMul(AmountOf(e), backtest.commission_rate)

\* the orders of the runs made that _match_order_v2 gave a trade for
MatchedOrders ==
    {e \in UNION {{btRuns[i].log[k] : k \in 1..Len(btRuns[i].log)} : i \in 1..Len(btRuns)} :
        e.kind = "order" /\ e.matched > 0}

\* C37: with a commission rate in [0, 1] and a slippage in [0, 1), cash is
\* not negative after any order of a run; a BUY whose amount plus commission
\* exceeds the cash is skipped and leaves cash and holding as they were; the
\* commission of a SELL that traded does not exceed its amount, and the
\* cash after it is the cash before plus amount minus commission.
C37_CashNeverNegative ==
    /\ RatLe(RatZero, backtest.commission_rate) /\ RatLe(backtest.commission_rate, RatInt(1))
    /\ RatLe(RatZero, backtest.slippage) /\ RatLt(backtest.slippage, RatInt(1))
    /\ \A i \in 1..Len(btRuns) : ~btRuns[i].raised
    /\ \A e \in MatchedOrders :
          /\ RatLe(RatZero, e.cash) /\ RatLe(RatZero, e.cash_after)
          /\ (e.side = "BUY" /\ RatLt(e.cash, RatAdd(AmountOf(e), CommissionOf(e)))) =>
                ~e.traded /\ e.cash_after = e.cash /\ e.held_after = e.held
          /\ (e.side = "BUY" /\ e.traded) =>
                e.cash_after = RatSub(RatSub(e.cash, AmountOf(e)), CommissionOf(e))
          /\ (e.side = "SELL" /\ e.traded) =>
                /\ RatLe(CommissionOf(e), AmountOf(e))
                /\ e.cash_after = RatSub(RatAdd(e.cash, AmountOf(e)), CommissionOf(e))
    /\ \A i \in 1..Len(btRuns) :
          \A k \in 1..Len(btRuns[i].result.trades) :
             LET t == btRuns[i].result.trades[k]
             IN t.side = "SELL" => RatLe(t.commission, t.amount)

\* a BUY the cash would pay for without the commission is skipped, and in
\* the same run a SELL is charged a commission
C37_Witness ==
    \E e \in MatchedOrders, f \in MatchedOrders :
       /\ e.side = "BUY" /\ ~e.traded
       /\ RatLe(AmountOf(e), e.cash)
       /\ RatLt(e.cash, RatAdd(AmountOf(e), CommissionOf(e)))
       /\ f.side = "SELL" /\ f.traded /\ RatLt(RatZero, CommissionOf(f))

\* ------------------------------------------------------------------------
\* Failed trades
\* ------------------------------------------------------------------------
\* what C36 says of one buy or sell call
C36_StepFailedTrade ==
    (lastCall'.op \in {"buy", "sell"} /\ ~lastCall'.ok) =>
        /\ portfolio'.cash = portfolio.cash
        /\ portfolio'.positions = portfolio.positions
        /\ portfolio'.pending_t1 = portfolio.pending_t1

\* C36: a buy or a sell that raises (invalid input, insufficient cash,
\* missing position, quantity above the holding or above the available
\* quantity) leaves cash, positions and pending_t1 as they were.
C36_FailedTradeChangesNothing == [][C36_StepFailedTrade]_vars

\* a T+1 portfolio with a pending bucket after a sell that failed for a
\* quantity within the holding and above the available quantity
C36_Witness ==
    /\ lastCall.op = "sell"
    /\ ~lastCall.ok
    /\ portfolio.pending_t1 # << >>
    /\ lastCall.symbol \in DOMAIN portfolio.positions
    /\ lastCall.quantity > 0
    /\ lastCall.quantity <= portfolio.positions[lastCall.symbol].quantity
    /\ lastCall.quantity > portfolio.positions[lastCall.symbol].available

\* ------------------------------------------------------------------------
\* Plugin lifecycle properties
\* ------------------------------------------------------------------------
\* what C33 says of one initialize or shutdown call
C33_StepAlternates ==
    /\ lastCall'.op = "initialize" =>
          \A i \in 1..Len(pmLog') :
             pmLog'[i].call = "setup" /\ pmLog'[i].name \notin setUp
    /\ lastCall'.op = "shutdown" =>
          /\ \A i \in 1..Len(pmLog') :
                pmLog'[i].call = "teardown" /\ pmLog'[i].name \in setUp
          /\ setUp' = {}

\* C33: with setups and teardowns that may raise, the setup and teardown
\* calls of each plugin alternate, starting with setup: initialize calls
\* setup on no plugin that is set up and not torn down since, shutdown calls
\* teardown only on plugins that are set up, and after a shutdown no plugin
\* whose setup completed is left without its teardown.
C33_SetupTeardownAlternate == [][C33_StepAlternates]_vars

\* what C34 says of one shutdown call
C34_StepShutdown ==
    (lastCall'.op = "shutdown" /\ manager.initialized) =>
        /\ lastCall'.ok
        /\ pmLog' = LifecycleCalls("teardown", Reverse(CallNames(lastInit.calls)))

\* C34: a shutdown after a successful initialize returns normally and calls
\* teardown exactly once, in reverse initialization order, on every plugin
\* that was set up, whatever was registered or unregistered in between.
C34_ShutdownAfterChanges == [][C34_StepShutdown]_vars


\* ------------------------------------------------------------------------
\* Dispatch properties
\* ------------------------------------------------------------------------
\* the registrations held for a type, by identity
RegsOf(eng, event_type) ==
    {DictGet(eng.handlers, event_type, << >>)[i].reg :
        i \in 1..Len(DictGet(eng.handlers, event_type, << >>))}

\* what C35 says of one put on a running bus
C35_StepDispatch ==
    (lastCall'.op = "put" /\ engine.running) =>
        \A r \in RegsOf(engine, lastCall'.type) \cap RegsOf(engine', lastCall'.type) :
           Cardinality({k \in 1..Len(busLog') :
                           busLog'[k].kind = "handler" /\ busLog'[k].reg = r}) = 1

C32_StepAtomic ==
    lastCall'.op = "get" =>
       /\ \/ lastCall'.ret = NoneResult
          \/ /\ lastCall'.ret.kind = "value"
             /\ lastCall'.ret.value \in cacheHist.stored[lastCall'.key]
       /\ (lastCall'.fresh.present /\ ~IsExpired(lastCall'.fresh.expires_at, clock))
             => lastCall'.ret = ValueResult(lastCall'.fresh.value)

C32_AtomicEntries == [][C32_StepAtomic]_vars

\* a get returned the value of the set it followed, the entry carrying an
\* expiry time, while the other thread waits for the lock to set the key
C32_Witness ==
    /\ lastCall.op = "get"
    /\ lastCall.fresh.present /\ ~lastCall.fresh.expires_at.none
    /\ lastCall.ret = ValueResult(lastCall.fresh.value)
    /\ \E u \in Threads :
          /\ threads[u].pc = "lock" /\ threads[u].op = "set"
          /\ threads[u].key = lastCall.key

\* C39 as the specification states it: however the get_or_set calls for a
\* key that is not cached interleave, the factory is invoked at most once
\* for the key and all the calls return the same value.
C39_AsStated ==
    \A k \in Keys :
       /\ cacheHist.factory_calls[k] <= 1
       /\ Cardinality(cacheHist.returned[k]) <= 1

\* C39: as long as no two get_or_set calls for a key were under way
\* together, the factory was invoked at most once for the key and all the
\* calls returned the same value; every call returns a value the factory
\* made for the key.
C39_OneAfterAnother ==
    \A k \in Keys :
       /\ ~cacheHist.overlapped[k] =>
             /\ cacheHist.factory_calls[k] <= 1
             /\ Cardinality(cacheHist.returned[k]) <= 1
       /\ cacheHist.returned[k] \subseteq cacheHist.stored[k]

\* a second get_or_set for a key, begun after the first had returned, has
\* returned the cached value without calling the factory
C39_Witness ==
    /\ lastCall.op = "get_or_set" /\ ~lastCall.made
    /\ ~cacheHist.overlapped[lastCall.key]
    /\ cacheHist.factory_calls[lastCall.key] = 1
    /\ cacheHist.returned[lastCall.key] = {lastCall.ret.value}

====
